---- MODULE Spec2Model ----
(***************************************************************************)
(* Cooperative task executor and keyboard event bridge of asm-os.          *)
(*                                                                         *)
(* Normal context: kernel_main -> Executor::new, spawn*, run (forever).    *)
(* Interrupt context: keyboard_interrupt_handler -> add_scancode, which    *)
(* runs to completion whenever the interrupt flag is set.                  *)
(* IrqSpec follows the generated interrupt handler lock by lock.           *)
(*                                                                         *)
(* Option values are modelled as sets of at most one element:              *)
(* {} is None and {x} is Some(x).                                          *)
(***************************************************************************)
EXTENDS Integers, Sequences, FiniteSets, TLC

\* ---------------------------------------------------------------------
\* Bounds.  The two capacities are 128 in the source; the model runs the
\* same code with small capacities so that the full cases are reached.
\* ---------------------------------------------------------------------
SCANCODE_QUEUE_CAPACITY == 2
QUEUE_SIZE == 2
MaxTasks == 3
MaxEvents == 3
MaxAwaits == 1

\* Raw bytes read from port 0x60 (0x1E = 'a' pressed, 0x9E = 'a' released).
ScancodeSet == {30, 158}

TaskIDs == 0..(MaxTasks - 1)

\* The future a task owns: `forever` is the echo loop (while let Some(..) =
\* scancodes.next().await), otherwise the future awaits `left` more events
\* from the stream and then returns.
Futures == {[forever |-> TRUE, left |-> 0]}
             \cup {[forever |-> FALSE, left |-> n] : n \in 0..MaxAwaits}

VARIABLES
    pc,              \* position of the normal-context control flow
    int_enabled,     \* CPU interrupt-enable flag (RFLAGS.IF)
    NEXT_ID,         \* task.rs NEXT_ID
    tasks,           \* Executor.tasks: TaskID -> future
    task_queue,      \* Executor.task_queue
    waker_cache,     \* Executor.waker_cache: TaskID -> task_id of the handle
    running,         \* task being polled (Option)
    SCANCODE_QUEUE,  \* keyboard.rs SCANCODE_QUEUE
    WAKER,           \* keyboard.rs WAKER: stored handle (Option of task_id)
    READER,          \* keyboard.rs READER: task holding the lock (Option)
    scancode,        \* poll_next local: byte obtained by the second pop
    accepted,        \* history: bytes accepted by add_scancode, in order
    delivered,       \* history: bytes returned by poll_next, in order
    dropped,         \* history: some byte was dropped on a full queue
    completed,       \* history: tasks whose poll returned Ready
    polled,          \* history: tasks whose first poll has started
    wakes,           \* history: wake_task pushes since the last register
    superseded,      \* history: handles replaced in WAKER by a later register
    stale,           \* history: per task, its ready-queue entries that were
                     \* pushed before its latest poll started
    made,            \* history: per task, WakerWrapper::new calls made for it
    poll_hist,       \* history: the latest poll (resumed? events by which pop?)
    irq,             \* position inside the generated interrupt handler
    lock_owner,      \* spin::Mutex statics: who holds each lock
    npos,            \* position of normal context inside a lock-using function
    nlock,           \* the lock that function uses
    saved_if,        \* without_interrupts / halt: the flag found on entry
    irq_trace,       \* history: what the current interrupt handler has done
    pool,            \* allocator/pool.rs PoolAllocator: buckets, fallback heap
    pool_hist,       \* history: live blocks, last operation, counters
    kbd_boot,        \* kernel/keyboard.rs init: position, queue cell, handler, mask
    nub,             \* nub/task/keyboard.rs: queue cell, stream construction
    KEYBOARD,        \* drv/ipd/kbd.rs KEYBOARD mutex and its users' positions
    console,         \* dev/console.rs BUFFER, read_line position, history
    bump             \* allocator/bump.rs BumpAllocator fields, history

vars == <<pc, int_enabled, NEXT_ID, tasks, task_queue, waker_cache, running,
          SCANCODE_QUEUE, WAKER, READER, scancode,
          accepted, delivered, dropped, completed, polled, wakes, superseded,
          stale, made, poll_hist, irq, lock_owner, npos, nlock, saved_if, irq_trace,
          pool, pool_hist, kbd_boot, nub, KEYBOARD, console, bump>>

exec_vars == <<NEXT_ID, tasks, task_queue, waker_cache, running>>
kbd_vars  == <<SCANCODE_QUEUE, WAKER, READER, scancode>>
hist_vars == <<accepted, delivered, dropped, completed, polled, wakes, superseded,
               stale, made, poll_hist>>
irq_vars  == <<irq, lock_owner, npos, nlock, saved_if, irq_trace>>
heap_vars == <<pool, pool_hist>>
ext_vars  == <<kbd_boot, nub, KEYBOARD, console, bump>>

\* Heap of the model, in allocation units (HEAP_SIZE scaled down), and the
\* number of alloc calls followed.
HeapUnits == 4
MaxAllocs == 6

\* Block sizes of the buckets, in units (8 .. 4096 bytes in the source).
BLOCK_SIZES == <<1, 2>>

\* Sizes a caller asks for: every bucket size and one size above the largest.
LayoutSizes == 1..(BLOCK_SIZES[Len(BLOCK_SIZES)] + 1)

\* PoolAllocator::new followed by init(heap_start, heap_size): empty
\* buckets, the whole heap free in the fallback allocator.
PoolNew == [buckets |-> [i \in 1..Len(BLOCK_SIZES) |-> <<>>],
            free |-> 0..(HeapUnits - 1)]

PoolHistNew == [live |-> {}, last |-> [op |-> "none", size |-> 0, ptr |-> {}],
                allocs |-> 0, null_returned |-> FALSE, sizes |-> {}]

\* The spin locks taken on the interrupt path: INTERRUPT_HANDLERS and PICS
\* (interrupts.rs), LOGGER (logger.rs), WRITER (vga_buffer.rs).
\* No poll has started yet.
PollHistNew == [resumed |-> FALSE, fast |-> FALSE, slow |-> FALSE]

\* keyboard::init has not started: the OnceCell is empty, the table holds
\* default_interrupt_handler for the keyboard line.
KbdBootNew == [pos |-> "pics", cell |-> FALSE, handler |-> "default",
               masked |-> TRUE, ignored |-> 0, warned |-> FALSE]

\* nub build: no ScancodeStream constructed, no warning printed.
NubNew == [cell |-> FALSE, streams |-> 0, warned |-> 0, panicked |-> FALSE]

\* drv/ipd/kbd.rs before init: KEYBOARD is Mutex::new(None), unlocked.
KeyboardNew == [owner |-> "free", layout |-> {}, npos |-> "boot",
                op |-> "set_layout", arg |-> "QWERTY", got |-> {},
                installed |-> FALSE, ipos |-> "none", handled |-> 0]

\* dev/console.rs: BUFFER is empty, read_line has not been called.
ConsoleNew == [BUFFER |-> <<>>, rpos |-> "idle", line |-> {}, returned |-> <<>>,
               stored |-> <<>>, kept |-> <<>>, keys |-> 0]

\* kernel/allocator/bump.rs: BumpAllocator::new(); live and last are history.
BumpNew == [heap_start |-> 0, heap_end |-> 0, next |-> 0, allocations |-> 0,
            live |-> {}, last |-> [op |-> "new", ptr |-> 0, size |-> 0, align |-> 1]]

Locks == {"INTERRUPT_HANDLERS", "PICS", "LOGGER", "WRITER"}

\* ---------------------------------------------------------------------
\* crossbeam ArrayQueue as used by the kernel: bounded FIFO, push fails
\* when full, pop fails when empty.
\* ---------------------------------------------------------------------
IsFull(q, cap) == Len(q) >= cap

\* Faulty push: a full ring overwrites its oldest slot.
ArrayQueuePushOverwrite(q, x, cap) ==
    IF IsFull(q, cap) THEN [ok |-> FALSE, q |-> Append(Tail(q), x)]
    ELSE [ok |-> TRUE, q |-> Append(q, x)]

\* push: Ok and the element appended, or Err and the queue untouched.
ArrayQueuePush(q, x, cap) ==
    IF IsFull(q, cap) THEN [ok |-> FALSE, q |-> q]
    ELSE [ok |-> TRUE, q |-> Append(q, x)]

\* Faulty pop: the newest element leaves the queue.
ArrayQueuePopNewest(q) == [item |-> q[Len(q)], q |-> SubSeq(q, 1, Len(q) - 1)]

\* pop: the oldest element leaves the queue.
ArrayQueuePop(q) == [item |-> Head(q), q |-> Tail(q)]

\* Number of entries of q equal to x.
Count(x, q) == Cardinality({i \in 1..Len(q) : q[i] = x})

\* ---------------------------------------------------------------------
\* AtomicWaker as used through WAKER: one slot.
\* ---------------------------------------------------------------------
\* Faulty register: an occupied slot keeps its handle.
WakerRegisterKeepFirst(cell, handle) == IF cell = {} THEN {handle} ELSE cell

\* register: the slot holds the given handle, whatever it held before.
WakerRegister(cell, handle) == {handle}

\* Faulty take: the handle stays in the slot.
WakerTakeKeep(cell) == cell

\* take: the slot is left empty (the caller gets what it held).
WakerTake(cell) == {}

\* Faulty wake_task: the woken task takes the place of the queue's head.
wake_task_front(q, handle) ==
    [ok |-> TRUE, q |-> IF q = <<>> THEN <<handle>> ELSE <<handle>> \o Tail(q)]

\* Faulty wake_task: reports success without pushing.
wake_task_lost(q, handle) == [ok |-> TRUE, q |-> q]

\* WakerWrapper::wake_task: pushes the handle's task_id; Err on a full queue
\* is turned into a panic by expect().
wake_task(q, handle) == ArrayQueuePush(q, handle, QUEUE_SIZE)

\* The three fatal errors of the executor (expect / panic!), after which the
\* panic handler parks the CPU: "task queue is full" in wake_task, "queue
\* full" in spawn, "task with same ID already in tasks" in spawn.
Panicked == pc \in {"panic_wake", "panic_spawn", "panic_dup"}

Init ==
    /\ pc = "boot"
    /\ int_enabled = TRUE
    /\ NEXT_ID = 0
    /\ tasks = <<>>
    /\ task_queue = <<>>
    /\ waker_cache = <<>>
    /\ running = {}
    /\ SCANCODE_QUEUE = <<>>
    /\ WAKER = {}
    /\ READER = {}
    /\ scancode = {}
    /\ accepted = <<>>
    /\ delivered = <<>>
    /\ dropped = FALSE
    /\ completed = {}
    /\ polled = {}
    /\ wakes = 0
    /\ superseded = {}
    /\ stale = [t \in TaskIDs |-> 0]
    /\ made = [t \in TaskIDs |-> 0]
    /\ poll_hist = PollHistNew
    /\ irq = "none"
    /\ lock_owner = [l \in Locks |-> "free"]
    /\ npos = "idle"
    /\ nlock = "WRITER"
    /\ saved_if = FALSE
    /\ irq_trace = <<>>
    /\ pool = PoolNew
    /\ pool_hist = PoolHistNew
    /\ kbd_boot = KbdBootNew
    /\ nub = NubNew
    /\ KEYBOARD = KeyboardNew
    /\ console = ConsoleNew
    /\ bump = BumpNew

\* Function update helpers for the BTreeMaps.
MapInsert(m, k, v) == [x \in (DOMAIN m) \cup {k} |-> IF x = k THEN v ELSE m[x]]

\* Faulty remove: the entry stays.
MapRemoveNothing(m, k) == m

MapRemove(m, k) == [x \in (DOMAIN m) \ {k} |-> m[x]]

\* Faulty return from interrupt: control goes to the run loop, whatever was
\* interrupted (a preempting scheduler).
AfterInterruptPreempt(p) == "drain"

\* Faulty halt: the CPU stays halted after an interrupt.
AfterInterruptStay(p) == p

\* An interrupt ends a halt: hlt returns, sleep_if_idle returns and run()
\* starts the next run_ready_tasks.  Otherwise the interrupted code resumes.
AfterInterrupt(p) == IF p = "halted" THEN "drain" ELSE p

\* WAKER.register(handle), with the bookkeeping of the history variables.
WAKER_register(handle) ==
    /\ WAKER' = WakerRegister(WAKER, handle)
    /\ superseded' = (superseded \cup WAKER) \ {handle}
    /\ wakes' = 0

\* WAKER.wake(): take the stored handle, if any, and invoke it
\* (Wake::wake -> wake_task, which panics on a full ready queue).
WAKER_wake ==
    /\ WAKER' = WakerTake(WAKER)
    /\ IF WAKER = {}
       THEN /\ pc' = AfterInterrupt(pc)
            /\ UNCHANGED <<task_queue, wakes>>
       ELSE \E handle \in WAKER :
            LET woken == wake_task(task_queue, handle) IN
            /\ task_queue' = woken.q
            /\ wakes' = IF woken.ok THEN wakes + 1 ELSE wakes
            /\ pc' = IF woken.ok THEN AfterInterrupt(pc) ELSE "panic_wake"

\* ---------------------------------------------------------------------
\* Boot sequence (main.rs kernel_main): Executor::new, spawn*, run.
\* ---------------------------------------------------------------------

\* Faulty counter: the load is not followed by the increment.
TaskIDNewStuck(counter) == [id |-> counter, next |-> counter]

\* TaskID::new: NEXT_ID.fetch_add(1, Relaxed) returns the old value and
\* leaves the counter one higher.
TaskIDNew(counter) == [id |-> counter, next |-> counter + 1]

\* Faulty spawn: the result of the push is not looked at.
SpawnPushedIgnore(ok) == "boot"

\* self.task_queue.push(task_id).expect("queue full"): spawn returns to
\* kernel_main on Ok and panics on Err.
SpawnPushed(ok) == IF ok THEN "boot" ELSE "panic_spawn"

\* Faulty spawn: the new id goes to the head of the ready queue.
spawn_front(future) ==
    /\ pc = "boot"
    /\ NEXT_ID < MaxTasks
    /\ LET task_id == TaskIDNew(NEXT_ID).id IN
       /\ NEXT_ID' = TaskIDNew(NEXT_ID).next
       /\ tasks' = MapInsert(tasks, task_id, future)
       /\ IF IsFull(task_queue, QUEUE_SIZE)
          THEN pc' = "panic_spawn" /\ UNCHANGED task_queue
          ELSE pc' = "boot" /\ task_queue' = <<task_id>> \o task_queue
    /\ UNCHANGED <<int_enabled, waker_cache, running>>
    /\ UNCHANGED kbd_vars
    /\ UNCHANGED hist_vars
    /\ UNCHANGED irq_vars
    /\ UNCHANGED heap_vars
    /\ UNCHANGED ext_vars

\* executor.spawn(Task::new(future))
spawn(future) ==
    /\ pc = "boot"
    /\ NEXT_ID < MaxTasks
    /\ LET task_id == TaskIDNew(NEXT_ID).id IN
       /\ NEXT_ID' = TaskIDNew(NEXT_ID).next
       /\ IF task_id \in DOMAIN tasks
          THEN /\ pc' = "panic_dup"
               /\ tasks' = MapInsert(tasks, task_id, future)
               /\ UNCHANGED task_queue
          ELSE /\ tasks' = MapInsert(tasks, task_id, future)
               /\ LET pushed == ArrayQueuePush(task_queue, task_id, QUEUE_SIZE) IN
                  /\ task_queue' = pushed.q
                  /\ pc' = SpawnPushed(pushed.ok)
    /\ UNCHANGED <<int_enabled, waker_cache, running>>
    /\ UNCHANGED kbd_vars
    /\ UNCHANGED hist_vars
    /\ UNCHANGED irq_vars
    /\ UNCHANGED heap_vars
    /\ UNCHANGED ext_vars

\* executor.run(): enter the loop, first statement is run_ready_tasks.
run ==
    /\ pc = "boot"
    /\ pc' = "drain"
    /\ UNCHANGED int_enabled
    /\ UNCHANGED exec_vars
    /\ UNCHANGED kbd_vars
    /\ UNCHANGED hist_vars
    /\ UNCHANGED irq_vars
    /\ UNCHANGED heap_vars
    /\ UNCHANGED ext_vars

\* ---------------------------------------------------------------------
\* Executor::run_ready_tasks
\* ---------------------------------------------------------------------

\* First position of a task's poll: a future that awaits nothing returns at
\* once; the first poll of a stream consumer starts with READER.lock();
\* a resumed consumer continues inside scancodes.next().
PollEntry(task_id) ==
    IF ~tasks[task_id].forever /\ tasks[task_id].left = 0 THEN "ready"
    ELSE IF task_id \in polled THEN "pop1"
    ELSE "lock"

\* Faulty constructor: every handle carries the first identifier.
WakerWrapperNewZero(task_id) == 0

\* WakerWrapper::new(task_id, task_queue.clone()): the handle is modelled by
\* the task_id it carries (the queue it pushes to is the one ready queue).
WakerWrapperNew(task_id) == task_id

\* Faulty cache: a handle is constructed for every poll.
WakerConstructedAlways(cache, task_id) == TRUE

\* or_insert_with runs its closure, WakerWrapper::new, only when waker_cache
\* has no entry for task_id.
WakerConstructed(cache, task_id) == task_id \notin DOMAIN cache

\* Faulty order: the handle is made before the task is looked up.
WakerCacheEntryEager(cache, live, task_id) ==
    IF task_id \in DOMAIN cache THEN cache
    ELSE MapInsert(cache, task_id, WakerWrapperNew(task_id))

\* let task = match tasks.get_mut(&task_id) { Some(task) => task, None => continue };
\* let waker = waker_cache.entry(task_id).or_insert_with(|| WakerWrapper::new(..));
WakerCacheEntry(cache, live, task_id) ==
    IF task_id \notin DOMAIN live THEN cache
    ELSE IF task_id \in DOMAIN cache THEN cache
    ELSE MapInsert(cache, task_id, WakerWrapperNew(task_id))

\* while let Ok(task_id) = task_queue.pop() { ... task.poll(&mut context)
run_ready_tasks_pop ==
    /\ pc = "drain"
    /\ task_queue # <<>>
    /\ LET task_id == ArrayQueuePop(task_queue).item IN
       /\ task_queue' = ArrayQueuePop(task_queue).q
       /\ waker_cache' = WakerCacheEntry(waker_cache, tasks, task_id)
       /\ IF task_id \notin DOMAIN tasks
          THEN /\ pc' = "drain"
               /\ UNCHANGED <<running, polled, stale, made, poll_hist>>
          ELSE /\ running' = {task_id}
               /\ polled' = polled \cup {task_id}
               /\ stale' = [stale EXCEPT ![task_id] = Count(task_id, task_queue')]
               /\ made' = IF WakerConstructed(waker_cache, task_id)
                          THEN [made EXCEPT ![task_id] = @ + 1] ELSE made
               /\ poll_hist' = [resumed |-> task_id \in polled,
                                fast |-> FALSE, slow |-> FALSE]
               /\ pc' = PollEntry(task_id)
    /\ UNCHANGED <<int_enabled, NEXT_ID, tasks>>
    /\ UNCHANGED kbd_vars
    /\ UNCHANGED <<accepted, delivered, dropped, completed, wakes, superseded>>
    /\ UNCHANGED irq_vars
    /\ UNCHANGED heap_vars
    /\ UNCHANGED ext_vars

\* Faulty run: the loop is left once no task remains.
RunLoopUntilDone(live) == IF live = <<>> THEN "returned" ELSE "sleep_if_idle"

\* run() is `loop { self.run_ready_tasks(); self.sleep_if_idle(); }`: after
\* run_ready_tasks comes sleep_if_idle, whatever tasks holds.
RunLoop(live) == "sleep_if_idle"

\* task_queue.pop() returns Err: the loop ends and run() calls sleep_if_idle.
run_ready_tasks_end ==
    /\ pc = "drain"
    /\ task_queue = <<>>
    /\ pc' = RunLoop(tasks)
    /\ UNCHANGED int_enabled
    /\ UNCHANGED exec_vars
    /\ UNCHANGED kbd_vars
    /\ UNCHANGED hist_vars
    /\ UNCHANGED irq_vars
    /\ UNCHANGED heap_vars
    /\ UNCHANGED ext_vars

\* Faulty completion: the wake handle stays cached.
poll_ready_keep_cache ==
    /\ pc = "ready"
    /\ \E task_id \in running :
       /\ tasks' = MapRemove(tasks, task_id)
       /\ READER' = READER \ {task_id}
       /\ completed' = completed \cup {task_id}
       /\ stale' = [stale EXCEPT ![task_id] = 0]
    /\ UNCHANGED <<made, poll_hist>>
    /\ running' = {}
    /\ pc' = "drain"
    /\ UNCHANGED <<int_enabled, NEXT_ID, task_queue, waker_cache>>
    /\ UNCHANGED <<SCANCODE_QUEUE, WAKER, scancode>>
    /\ UNCHANGED <<accepted, delivered, dropped, polled, wakes, superseded>>
    /\ UNCHANGED irq_vars
    /\ UNCHANGED heap_vars
    /\ UNCHANGED ext_vars

\* Poll::Ready(()) => { tasks.remove(&task_id); waker_cache.remove(&task_id); }
\* Dropping the task drops its future and with it the READER guard it holds.
poll_ready ==
    /\ pc = "ready"
    /\ \E task_id \in running :
       /\ tasks' = MapRemove(tasks, task_id)
       /\ waker_cache' = MapRemove(waker_cache, task_id)
       /\ READER' = READER \ {task_id}
       /\ completed' = completed \cup {task_id}
       /\ stale' = [stale EXCEPT ![task_id] = 0]
    /\ UNCHANGED <<made, poll_hist>>
    /\ running' = {}
    /\ pc' = "drain"
    /\ UNCHANGED <<int_enabled, NEXT_ID, task_queue>>
    /\ UNCHANGED <<SCANCODE_QUEUE, WAKER, scancode>>
    /\ UNCHANGED <<accepted, delivered, dropped, polled, wakes, superseded>>
    /\ UNCHANGED irq_vars
    /\ UNCHANGED heap_vars
    /\ UNCHANGED ext_vars

\* ---------------------------------------------------------------------
\* keyboard.rs: echo and ScancodeStream::poll_next
\* ---------------------------------------------------------------------

\* let mut scancodes = READER.lock();  (spin::Mutex: spins while held)
echo_lock ==
    /\ pc = "lock"
    /\ IF READER = {}
       THEN READER' = running /\ pc' = "pop1"
       ELSE UNCHANGED READER /\ pc' = "spin"
    /\ UNCHANGED int_enabled
    /\ UNCHANGED exec_vars
    /\ UNCHANGED <<SCANCODE_QUEUE, WAKER, scancode>>
    /\ UNCHANGED hist_vars
    /\ UNCHANGED irq_vars
    /\ UNCHANGED heap_vars
    /\ UNCHANGED ext_vars

\* poll_next returned Poll::Ready(Some(sc)) to the running task: the task
\* has obtained sc; it either awaits the next event or its future returns.
Obtain(task_id, sc) ==
    /\ delivered' = Append(delivered, sc)
    /\ IF tasks[task_id].forever
       THEN UNCHANGED tasks /\ pc' = "pop1"
       ELSE /\ tasks' = [tasks EXCEPT ![task_id].left = @ - 1]
            /\ pc' = IF tasks[task_id].left = 1 THEN "ready" ELSE "pop1"

\* Faulty fast path: the caller is registered before the first pop.
poll_next_pop1_register ==
    /\ pc = "pop1"
    /\ \E task_id \in running :
       /\ WAKER' = {waker_cache[task_id]}
       /\ IF SCANCODE_QUEUE # <<>>
          THEN /\ SCANCODE_QUEUE' = ArrayQueuePop(SCANCODE_QUEUE).q
               /\ Obtain(task_id, ArrayQueuePop(SCANCODE_QUEUE).item)
               /\ poll_hist' = [poll_hist EXCEPT !.fast = TRUE]
          ELSE /\ pc' = "register"
               /\ UNCHANGED <<SCANCODE_QUEUE, tasks, delivered, poll_hist>>
    /\ UNCHANGED <<int_enabled, NEXT_ID, task_queue, waker_cache, running>>
    /\ UNCHANGED <<READER, scancode>>
    /\ UNCHANGED <<accepted, dropped, completed, polled, stale, made, wakes, superseded>>
    /\ UNCHANGED irq_vars
    /\ UNCHANGED heap_vars
    /\ UNCHANGED ext_vars

\* if let Ok(scancode) = queue.pop() { return Poll::Ready(Some(scancode)); }
poll_next_pop1 ==
    /\ pc = "pop1"
    /\ \E task_id \in running :
       IF SCANCODE_QUEUE # <<>>
       THEN /\ SCANCODE_QUEUE' = ArrayQueuePop(SCANCODE_QUEUE).q
            /\ Obtain(task_id, ArrayQueuePop(SCANCODE_QUEUE).item)
            /\ poll_hist' = [poll_hist EXCEPT !.fast = TRUE]
       ELSE /\ pc' = "register"
            /\ UNCHANGED <<SCANCODE_QUEUE, tasks, delivered, poll_hist>>
    /\ UNCHANGED <<int_enabled, NEXT_ID, task_queue, waker_cache, running>>
    /\ UNCHANGED <<WAKER, READER, scancode>>
    /\ UNCHANGED <<accepted, dropped, completed, polled, stale, made, wakes, superseded>>
    /\ UNCHANGED irq_vars
    /\ UNCHANGED heap_vars
    /\ UNCHANGED ext_vars

\* Faulty poll_next: the registration is left out.
poll_next_register_skip ==
    /\ pc = "register"
    /\ pc' = "pop2"
    /\ UNCHANGED int_enabled
    /\ UNCHANGED exec_vars
    /\ UNCHANGED kbd_vars
    /\ UNCHANGED hist_vars
    /\ UNCHANGED irq_vars
    /\ UNCHANGED heap_vars
    /\ UNCHANGED ext_vars

\* WAKER.register(&cx.waker());  the context's waker is the cached handle.
poll_next_register ==
    /\ pc = "register"
    /\ \E task_id \in running : WAKER_register(waker_cache[task_id])
    /\ pc' = "pop2"
    /\ UNCHANGED int_enabled
    /\ UNCHANGED exec_vars
    /\ UNCHANGED <<SCANCODE_QUEUE, READER, scancode>>
    /\ UNCHANGED <<accepted, delivered, dropped, completed, polled, stale, made, poll_hist>>
    /\ UNCHANGED irq_vars
    /\ UNCHANGED heap_vars
    /\ UNCHANGED ext_vars

\* Faulty re-check: poll_next returns Pending right after registering.
SecondPopNever(q) == FALSE

\* The re-check after the registration: does the second queue.pop() find
\* an event?
SecondPopOk(q) == q # <<>>

\* Faulty executor: a task that returns Pending is queued again at once.
poll_next_pop2_requeue ==
    /\ pc = "pop2"
    /\ IF SecondPopOk(SCANCODE_QUEUE)
       THEN /\ SCANCODE_QUEUE' = ArrayQueuePop(SCANCODE_QUEUE).q
            /\ scancode' = {ArrayQueuePop(SCANCODE_QUEUE).item}
            /\ pc' = "take"
            /\ UNCHANGED <<running, task_queue>>
       ELSE /\ pc' = "drain"
            /\ running' = {}
            /\ \E task_id \in running :
                 task_queue' = ArrayQueuePush(task_queue, task_id, QUEUE_SIZE).q
            /\ UNCHANGED <<SCANCODE_QUEUE, scancode>>
    /\ UNCHANGED <<int_enabled, NEXT_ID, tasks, waker_cache>>
    /\ UNCHANGED <<WAKER, READER>>
    /\ UNCHANGED hist_vars
    /\ UNCHANGED irq_vars
    /\ UNCHANGED heap_vars
    /\ UNCHANGED ext_vars

\* Faulty executor: a task that returns Pending loses its cached handle.
poll_next_pop2_forget ==
    /\ pc = "pop2"
    /\ IF SecondPopOk(SCANCODE_QUEUE)
       THEN /\ SCANCODE_QUEUE' = ArrayQueuePop(SCANCODE_QUEUE).q
            /\ scancode' = {ArrayQueuePop(SCANCODE_QUEUE).item}
            /\ pc' = "take"
            /\ UNCHANGED <<running, waker_cache>>
       ELSE /\ pc' = "drain"
            /\ running' = {}
            /\ \E task_id \in running : waker_cache' = MapRemove(waker_cache, task_id)
            /\ UNCHANGED <<SCANCODE_QUEUE, scancode>>
    /\ UNCHANGED <<int_enabled, NEXT_ID, tasks, task_queue>>
    /\ UNCHANGED <<WAKER, READER>>
    /\ UNCHANGED hist_vars
    /\ UNCHANGED irq_vars
    /\ UNCHANGED heap_vars
    /\ UNCHANGED ext_vars

\* match queue.pop() { Ok(scancode) => ..., Err(PopError) => Poll::Pending }
\* Poll::Pending => {} in run_ready_tasks: the task stays in tasks and
\* nothing is pushed.
poll_next_pop2 ==
    /\ pc = "pop2"
    /\ IF SecondPopOk(SCANCODE_QUEUE)
       THEN /\ SCANCODE_QUEUE' = ArrayQueuePop(SCANCODE_QUEUE).q
            /\ scancode' = {ArrayQueuePop(SCANCODE_QUEUE).item}
            /\ pc' = "take"
            /\ UNCHANGED running
       ELSE /\ pc' = "drain"
            /\ running' = {}
            /\ UNCHANGED <<SCANCODE_QUEUE, scancode>>
    /\ UNCHANGED <<int_enabled, NEXT_ID, tasks, task_queue, waker_cache>>
    /\ UNCHANGED <<WAKER, READER>>
    /\ UNCHANGED hist_vars
    /\ UNCHANGED irq_vars
    /\ UNCHANGED heap_vars
    /\ UNCHANGED ext_vars

\* Faulty second check: the event is returned, the registration stays.
poll_next_take_keep ==
    /\ pc = "take"
    /\ \E task_id \in running : \E sc \in scancode : Obtain(task_id, sc)
    /\ scancode' = {}
    /\ poll_hist' = [poll_hist EXCEPT !.slow = TRUE]
    /\ UNCHANGED <<int_enabled, NEXT_ID, task_queue, waker_cache, running>>
    /\ UNCHANGED <<SCANCODE_QUEUE, WAKER, READER>>
    /\ UNCHANGED <<accepted, dropped, completed, polled, stale, made, wakes, superseded>>
    /\ UNCHANGED irq_vars
    /\ UNCHANGED heap_vars
    /\ UNCHANGED ext_vars

\* WAKER.take(); Poll::Ready(Some(scancode))
poll_next_take ==
    /\ pc = "take"
    /\ WAKER' = WakerTake(WAKER)
    /\ \E task_id \in running : \E sc \in scancode : Obtain(task_id, sc)
    /\ scancode' = {}
    /\ poll_hist' = [poll_hist EXCEPT !.slow = TRUE]
    /\ UNCHANGED <<int_enabled, NEXT_ID, task_queue, waker_cache, running>>
    /\ UNCHANGED <<SCANCODE_QUEUE, READER>>
    /\ UNCHANGED <<accepted, dropped, completed, polled, stale, made, wakes, superseded>>
    /\ UNCHANGED irq_vars
    /\ UNCHANGED heap_vars
    /\ UNCHANGED ext_vars

\* ---------------------------------------------------------------------
\* Executor::sleep_if_idle
\* ---------------------------------------------------------------------

\* instructions::interrupts::disable();
sleep_if_idle_disable ==
    /\ pc = "sleep_if_idle"
    /\ int_enabled' = FALSE
    /\ pc' = "idle_check"
    /\ UNCHANGED exec_vars
    /\ UNCHANGED kbd_vars
    /\ UNCHANGED hist_vars
    /\ UNCHANGED irq_vars
    /\ UNCHANGED heap_vars
    /\ UNCHANGED ext_vars

\* Faulty idle test: halt without looking at the queue.
IsIdleAlways(q) == TRUE

\* self.task_queue.is_empty()
IsIdle(q) == q = <<>>

\* Faulty idle check: the branch for a non-empty queue returns without
\* enabling interrupts.
sleep_if_idle_check_no_enable ==
    /\ pc = "idle_check"
    /\ int_enabled' = IsIdle(task_queue)
    /\ pc' = IF IsIdle(task_queue) THEN "halted" ELSE "drain"
    /\ UNCHANGED exec_vars
    /\ UNCHANGED kbd_vars
    /\ UNCHANGED hist_vars
    /\ UNCHANGED irq_vars
    /\ UNCHANGED heap_vars
    /\ UNCHANGED ext_vars

\* if self.task_queue.is_empty() { enable_and_hlt() } else { enable() }
\* enable_and_hlt is `sti; hlt`: no interrupt is taken between the two.
sleep_if_idle_check ==
    /\ pc = "idle_check"
    /\ int_enabled' = TRUE
    /\ pc' = IF IsIdle(task_queue) THEN "halted" ELSE "drain"
    /\ UNCHANGED exec_vars
    /\ UNCHANGED kbd_vars
    /\ UNCHANGED hist_vars
    /\ UNCHANGED irq_vars
    /\ UNCHANGED heap_vars
    /\ UNCHANGED ext_vars

\* ---------------------------------------------------------------------
\* Interrupt context
\* ---------------------------------------------------------------------

\* keyboard_interrupt_handler -> add_scancode(scancode)
add_scancode(sc) ==
    /\ int_enabled
    /\ ~Panicked
    /\ LET pushed == ArrayQueuePush(SCANCODE_QUEUE, sc, SCANCODE_QUEUE_CAPACITY) IN
       /\ SCANCODE_QUEUE' = pushed.q
       /\ IF pushed.ok
          THEN /\ Len(accepted) < MaxEvents
               /\ accepted' = Append(accepted, sc)
               /\ UNCHANGED dropped
               /\ WAKER_wake
          ELSE \* warning!("scancode queue full; dropping keyboard input")
               /\ dropped' = TRUE
               /\ pc' = AfterInterrupt(pc)
               /\ UNCHANGED <<WAKER, task_queue, accepted, wakes>>
    /\ UNCHANGED <<int_enabled, NEXT_ID, tasks, waker_cache, running>>
    /\ UNCHANGED <<READER, scancode>>
    /\ UNCHANGED <<delivered, completed, polled, stale, made, poll_hist, superseded>>
    /\ UNCHANGED irq_vars
    /\ UNCHANGED heap_vars
    /\ UNCHANGED ext_vars

\* Any other interrupt (timer, RTC): touches none of this state; it ends a halt.
timer_irq_handler ==
    /\ int_enabled
    /\ pc = "halted"
    /\ pc' = AfterInterrupt(pc)
    /\ UNCHANGED int_enabled
    /\ UNCHANGED exec_vars
    /\ UNCHANGED kbd_vars
    /\ UNCHANGED hist_vars
    /\ UNCHANGED irq_vars
    /\ UNCHANGED heap_vars
    /\ UNCHANGED ext_vars

\* ---------------------------------------------------------------------
\* Specification
\* ---------------------------------------------------------------------

\* Steps of the normal-context control flow.
Normal ==
    \/ \E future \in Futures : spawn(future)
    \/ run
    \/ run_ready_tasks_pop
    \/ run_ready_tasks_end
    \/ poll_ready
    \/ echo_lock
    \/ poll_next_pop1
    \/ poll_next_register
    \/ poll_next_pop2
    \/ poll_next_take
    \/ sleep_if_idle_disable
    \/ sleep_if_idle_check

Interrupt ==
    \/ \E sc \in ScancodeSet : add_scancode(sc)
    \/ timer_irq_handler

Next == Normal \/ Interrupt

Spec == Init /\ [][Next]_vars

\* The CPU keeps executing normal-context instructions whenever it is not
\* halted; nothing is assumed about when interrupts arrive.
LiveSpec == Spec /\ WF_vars(Normal)

\* ---------------------------------------------------------------------
\* The Wake Signal on its own: WAKER driven by arbitrary register, wake
\* and take calls with arbitrary handles, the ready queue being drained by
\* run_ready_tasks of an executor that owns no task.
\* ---------------------------------------------------------------------
waker_register(handle) ==
    /\ pc = "drain"
    /\ WAKER_register(handle)
    /\ UNCHANGED <<pc, int_enabled>>
    /\ UNCHANGED exec_vars
    /\ UNCHANGED <<SCANCODE_QUEUE, READER, scancode>>
    /\ UNCHANGED <<accepted, delivered, dropped, completed, polled, stale, made, poll_hist>>
    /\ UNCHANGED irq_vars
    /\ UNCHANGED heap_vars
    /\ UNCHANGED ext_vars

waker_wake ==
    /\ pc = "drain"
    /\ WAKER_wake
    /\ UNCHANGED <<int_enabled, NEXT_ID, tasks, waker_cache, running>>
    /\ UNCHANGED <<SCANCODE_QUEUE, READER, scancode>>
    /\ UNCHANGED <<accepted, delivered, dropped, completed, polled, stale, made, poll_hist, superseded>>
    /\ UNCHANGED irq_vars
    /\ UNCHANGED heap_vars
    /\ UNCHANGED ext_vars

waker_take ==
    /\ pc = "drain"
    /\ WAKER' = WakerTake(WAKER)
    /\ UNCHANGED <<pc, int_enabled>>
    /\ UNCHANGED exec_vars
    /\ UNCHANGED <<SCANCODE_QUEUE, READER, scancode>>
    /\ UNCHANGED hist_vars
    /\ UNCHANGED irq_vars
    /\ UNCHANGED heap_vars
    /\ UNCHANGED ext_vars

WakerInit ==
    /\ pc = "drain"
    /\ int_enabled = TRUE
    /\ NEXT_ID = 0
    /\ tasks = <<>>
    /\ task_queue = <<>>
    /\ waker_cache = <<>>
    /\ running = {}
    /\ SCANCODE_QUEUE = <<>>
    /\ WAKER = {}
    /\ READER = {}
    /\ scancode = {}
    /\ accepted = <<>>
    /\ delivered = <<>>
    /\ dropped = FALSE
    /\ completed = {}
    /\ polled = {}
    /\ wakes = 0
    /\ superseded = {}
    /\ stale = [t \in TaskIDs |-> 0]
    /\ made = [t \in TaskIDs |-> 0]
    /\ poll_hist = PollHistNew
    /\ irq = "none"
    /\ lock_owner = [l \in Locks |-> "free"]
    /\ npos = "idle"
    /\ nlock = "WRITER"
    /\ saved_if = FALSE
    /\ irq_trace = <<>>
    /\ pool = PoolNew
    /\ pool_hist = PoolHistNew
    /\ kbd_boot = KbdBootNew
    /\ nub = NubNew
    /\ KEYBOARD = KeyboardNew
    /\ console = ConsoleNew
    /\ bump = BumpNew

WakerNext ==
    \/ \E handle \in TaskIDs : waker_register(handle)
    \/ waker_wake
    \/ waker_take
    \/ run_ready_tasks_pop

WakerSpec == WakerInit /\ [][WakerNext]_vars

\* ---------------------------------------------------------------------
\* The interrupt path instruction by instruction, with the spin locks it
\* takes, against the normal-context functions that take the same locks.
\* Normal context is kernel_main during initialisation (pc = "boot"): it
\* initialises the PICs, enables interrupts, installs handlers, logs and
\* prints.  No task is registered in WAKER.  The CPU has one core: while
\* the interrupt handler runs, normal context does not.
\* ---------------------------------------------------------------------
Acquire(owners, lock, who) == [owners EXCEPT ![lock] = who]

Release(owners, lock) == [owners EXCEPT ![lock] = "free"]

\* Faulty accessor: _print takes WRITER with the interrupt flag as it is.
WithoutInterruptsNotPrint(lock) == lock # "WRITER"

\* Does the normal-context accessor of the lock run its critical section
\* inside instructions::interrupts::without_interrupts?  It does for
\* INTERRUPT_HANDLERS (set_interrupt_handler), LOGGER (get_log_level,
\* set_log_level) and WRITER (_print and the other accessors).
WithoutInterrupts(lock) == TRUE

\* Faulty handler: the interrupt is acknowledged without calling the
\* installed handler.
AfterHandlersLockSkipCall == "pics_lock"

\* interrupt_handlers[$interrupt]() is the statement after the table lock.
AfterHandlersLock == "call"

\* init_pics: PICS.lock().initialize()  (interrupts are still disabled)
init_pics_lock ==
    /\ npos = "init_pics"
    /\ irq = "none"
    /\ lock_owner["PICS"] = "free"
    /\ lock_owner' = Acquire(lock_owner, "PICS", "normal")
    /\ npos' = "initialize"
    /\ UNCHANGED <<pc, int_enabled, irq, nlock, saved_if, irq_trace>>
    /\ UNCHANGED exec_vars
    /\ UNCHANGED kbd_vars
    /\ UNCHANGED hist_vars
    /\ UNCHANGED heap_vars
    /\ UNCHANGED ext_vars

\* The guard returned by PICS.lock() is dropped at the end of the statement.
init_pics_unlock ==
    /\ npos = "initialize"
    /\ irq = "none"
    /\ lock_owner' = Release(lock_owner, "PICS")
    /\ npos' = "idle"
    /\ UNCHANGED <<pc, int_enabled, irq, nlock, saved_if, irq_trace>>
    /\ UNCHANGED exec_vars
    /\ UNCHANGED kbd_vars
    /\ UNCHANGED hist_vars
    /\ UNCHANGED heap_vars
    /\ UNCHANGED ext_vars

\* interrupts::enable(): instructions::interrupts::enable()
enable ==
    /\ npos = "idle"
    /\ irq = "none"
    /\ ~int_enabled
    /\ int_enabled' = TRUE
    /\ UNCHANGED <<pc, irq, lock_owner, npos, nlock, saved_if, irq_trace>>
    /\ UNCHANGED exec_vars
    /\ UNCHANGED kbd_vars
    /\ UNCHANGED hist_vars
    /\ UNCHANGED heap_vars
    /\ UNCHANGED ext_vars

\* without_interrupts(|| { ... }): remember the flag and clear it.
without_interrupts_enter(lock) ==
    /\ npos = "idle"
    /\ irq = "none"
    /\ saved_if' = int_enabled
    /\ int_enabled' = IF WithoutInterrupts(lock) THEN FALSE ELSE int_enabled
    /\ nlock' = lock
    /\ npos' = "lock"
    /\ UNCHANGED <<pc, irq, lock_owner, irq_trace>>
    /\ UNCHANGED exec_vars
    /\ UNCHANGED kbd_vars
    /\ UNCHANGED hist_vars
    /\ UNCHANGED heap_vars
    /\ UNCHANGED ext_vars

\* INTERRUPT_HANDLERS.lock() / LOGGER.lock() / WRITER.lock() in normal context
critical_lock ==
    /\ npos = "lock"
    /\ irq = "none"
    /\ lock_owner[nlock] = "free"
    /\ lock_owner' = Acquire(lock_owner, nlock, "normal")
    /\ npos' = "unlock"
    /\ UNCHANGED <<pc, int_enabled, irq, nlock, saved_if, irq_trace>>
    /\ UNCHANGED exec_vars
    /\ UNCHANGED kbd_vars
    /\ UNCHANGED hist_vars
    /\ UNCHANGED heap_vars
    /\ UNCHANGED ext_vars

\* The closure ends: the guard is dropped.
critical_unlock ==
    /\ npos = "unlock"
    /\ irq = "none"
    /\ lock_owner' = Release(lock_owner, nlock)
    /\ npos' = "restore"
    /\ UNCHANGED <<pc, int_enabled, irq, nlock, saved_if, irq_trace>>
    /\ UNCHANGED exec_vars
    /\ UNCHANGED kbd_vars
    /\ UNCHANGED hist_vars
    /\ UNCHANGED heap_vars
    /\ UNCHANGED ext_vars

\* without_interrupts returns: the flag is set again if it was set on entry.
without_interrupts_leave ==
    /\ npos = "restore"
    /\ irq = "none"
    /\ int_enabled' = IF WithoutInterrupts(nlock) THEN saved_if ELSE int_enabled
    /\ npos' = "idle"
    /\ UNCHANGED <<pc, irq, lock_owner, nlock, saved_if, irq_trace>>
    /\ UNCHANGED exec_vars
    /\ UNCHANGED kbd_vars
    /\ UNCHANGED hist_vars
    /\ UNCHANGED heap_vars
    /\ UNCHANGED ext_vars

\* Faulty halt: interrupts stay enabled whatever the caller had.
HaltRestoreNone(was_enabled, now) == now

\* if disabled { instructions::interrupts::disable(); }
HaltRestore(was_enabled, now) == IF ~was_enabled THEN FALSE ELSE now

\* pit::halt (api::system::halt): let disabled = !are_enabled();
\* enable_and_hlt();  The CPU sleeps with interrupts enabled until an
\* interrupt handler has run.
halt_enter ==
    /\ npos = "idle"
    /\ irq = "none"
    /\ saved_if' = int_enabled
    /\ int_enabled' = TRUE
    /\ npos' = "hlt"
    /\ UNCHANGED <<pc, irq, lock_owner, nlock, irq_trace>>
    /\ UNCHANGED exec_vars
    /\ UNCHANGED kbd_vars
    /\ UNCHANGED hist_vars
    /\ UNCHANGED heap_vars
    /\ UNCHANGED ext_vars

\* hlt has returned: the flag is cleared again if it was clear on entry.
halt_leave ==
    /\ npos = "hlt_done"
    /\ irq = "none"
    /\ int_enabled' = HaltRestore(saved_if, int_enabled)
    /\ npos' = "idle"
    /\ UNCHANGED <<pc, irq, lock_owner, nlock, saved_if, irq_trace>>
    /\ UNCHANGED exec_vars
    /\ UNCHANGED kbd_vars
    /\ UNCHANGED hist_vars
    /\ UNCHANGED heap_vars
    /\ UNCHANGED ext_vars

\* lock.lock() in interrupt context: the lock is taken, or the handler
\* spins, and since nothing else runs meanwhile it spins forever.
IrqLock(lock, next) ==
    IF lock_owner[lock] = "free"
    THEN lock_owner' = Acquire(lock_owner, lock, "interrupt") /\ irq' = next
    ELSE UNCHANGED lock_owner /\ irq' = "spin"

\* The CPU takes the keyboard interrupt through an interrupt gate: the
\* interrupt flag is cleared until the handler returns.
interrupt_entry ==
    /\ int_enabled
    /\ irq = "none"
    /\ int_enabled' = FALSE
    /\ irq' = "handlers_lock"
    /\ irq_trace' = <<>>
    /\ UNCHANGED <<pc, lock_owner, npos, nlock, saved_if>>
    /\ UNCHANGED exec_vars
    /\ UNCHANGED kbd_vars
    /\ UNCHANGED hist_vars
    /\ UNCHANGED heap_vars
    /\ UNCHANGED ext_vars

\* let interrupt_handlers = INTERRUPT_HANDLERS.lock();
interrupt_handlers_lock ==
    /\ irq = "handlers_lock"
    /\ IrqLock("INTERRUPT_HANDLERS", AfterHandlersLock)
    /\ UNCHANGED <<pc, int_enabled, npos, nlock, saved_if, irq_trace>>
    /\ UNCHANGED exec_vars
    /\ UNCHANGED kbd_vars
    /\ UNCHANGED hist_vars
    /\ UNCHANGED heap_vars
    /\ UNCHANGED ext_vars

\* interrupt_handlers[$interrupt]() -> keyboard_interrupt_handler ->
\* add_scancode(scancode), up to the warning! of the full case.
keyboard_interrupt_handler(sc) ==
    /\ irq = "call"
    /\ irq_trace' = Append(irq_trace, "add_scancode")
    /\ LET pushed == ArrayQueuePush(SCANCODE_QUEUE, sc, SCANCODE_QUEUE_CAPACITY) IN
       /\ SCANCODE_QUEUE' = pushed.q
       /\ IF pushed.ok
          THEN /\ Len(accepted) < MaxEvents
               /\ accepted' = Append(accepted, sc)
               /\ UNCHANGED dropped
               /\ WAKER_wake
               /\ irq' = "pics_lock"
          ELSE /\ dropped' = TRUE
               /\ irq' = "log_level"
               /\ UNCHANGED <<pc, WAKER, task_queue, accepted, wakes>>
    /\ UNCHANGED <<int_enabled, NEXT_ID, tasks, waker_cache, running>>
    /\ UNCHANGED <<READER, scancode>>
    /\ UNCHANGED <<delivered, completed, polled, superseded, stale, made, poll_hist>>
    /\ UNCHANGED <<lock_owner, npos, nlock, saved_if>>
    /\ UNCHANGED heap_vars
    /\ UNCHANGED ext_vars

\* warning! -> _log -> get_log_level(): LOGGER.lock()
log_level_lock ==
    /\ irq = "log_level"
    /\ IrqLock("LOGGER", "log_level_unlock")
    /\ UNCHANGED <<pc, int_enabled, npos, nlock, saved_if, irq_trace>>
    /\ UNCHANGED exec_vars
    /\ UNCHANGED kbd_vars
    /\ UNCHANGED hist_vars
    /\ UNCHANGED heap_vars
    /\ UNCHANGED ext_vars

log_level_unlock ==
    /\ irq = "log_level_unlock"
    /\ lock_owner' = Release(lock_owner, "LOGGER")
    /\ irq' = "print"
    /\ UNCHANGED <<pc, int_enabled, npos, nlock, saved_if, irq_trace>>
    /\ UNCHANGED exec_vars
    /\ UNCHANGED kbd_vars
    /\ UNCHANGED hist_vars
    /\ UNCHANGED heap_vars
    /\ UNCHANGED ext_vars

\* _log -> print! / vga::get_cursor_pos / println!: WRITER.lock(); every
\* one of these calls takes and releases WRITER in the same way.
print_lock ==
    /\ irq = "print"
    /\ IrqLock("WRITER", "print_unlock")
    /\ UNCHANGED <<pc, int_enabled, npos, nlock, saved_if, irq_trace>>
    /\ UNCHANGED exec_vars
    /\ UNCHANGED kbd_vars
    /\ UNCHANGED hist_vars
    /\ UNCHANGED heap_vars
    /\ UNCHANGED ext_vars

print_unlock ==
    /\ irq = "print_unlock"
    /\ lock_owner' = Release(lock_owner, "WRITER")
    /\ irq' = "pics_lock"
    /\ UNCHANGED <<pc, int_enabled, npos, nlock, saved_if, irq_trace>>
    /\ UNCHANGED exec_vars
    /\ UNCHANGED kbd_vars
    /\ UNCHANGED hist_vars
    /\ UNCHANGED heap_vars
    /\ UNCHANGED ext_vars

\* PICS.lock()
pics_lock ==
    /\ irq = "pics_lock"
    /\ IrqLock("PICS", "eoi")
    /\ UNCHANGED <<pc, int_enabled, npos, nlock, saved_if, irq_trace>>
    /\ UNCHANGED exec_vars
    /\ UNCHANGED kbd_vars
    /\ UNCHANGED hist_vars
    /\ UNCHANGED heap_vars
    /\ UNCHANGED ext_vars

\* .notify_end_of_interrupt(..); the PICS guard is dropped with the statement.
notify_end_of_interrupt ==
    /\ irq = "eoi"
    /\ irq_trace' = Append(irq_trace, "notify_end_of_interrupt")
    /\ lock_owner' = Release(lock_owner, "PICS")
    /\ irq' = "return"
    /\ UNCHANGED <<pc, int_enabled, npos, nlock, saved_if>>
    /\ UNCHANGED exec_vars
    /\ UNCHANGED kbd_vars
    /\ UNCHANGED hist_vars
    /\ UNCHANGED heap_vars
    /\ UNCHANGED ext_vars

\* End of the generated handler: the table guard is dropped and iretq
\* restores the interrupt flag; a hlt that was interrupted is over.
interrupt_return ==
    /\ irq = "return"
    /\ lock_owner' = Release(lock_owner, "INTERRUPT_HANDLERS")
    /\ int_enabled' = TRUE
    /\ irq' = "none"
    /\ npos' = IF npos = "hlt" THEN "hlt_done" ELSE npos
    /\ UNCHANGED <<pc, nlock, saved_if, irq_trace>>
    /\ UNCHANGED exec_vars
    /\ UNCHANGED kbd_vars
    /\ UNCHANGED hist_vars
    /\ UNCHANGED heap_vars
    /\ UNCHANGED ext_vars

IrqInit ==
    /\ pc = "boot"
    /\ int_enabled = FALSE
    /\ NEXT_ID = 0
    /\ tasks = <<>>
    /\ task_queue = <<>>
    /\ waker_cache = <<>>
    /\ running = {}
    /\ SCANCODE_QUEUE = <<>>
    /\ WAKER = {}
    /\ READER = {}
    /\ scancode = {}
    /\ accepted = <<>>
    /\ delivered = <<>>
    /\ dropped = FALSE
    /\ completed = {}
    /\ polled = {}
    /\ wakes = 0
    /\ superseded = {}
    /\ stale = [t \in TaskIDs |-> 0]
    /\ made = [t \in TaskIDs |-> 0]
    /\ poll_hist = PollHistNew
    /\ irq = "none"
    /\ lock_owner = [l \in Locks |-> "free"]
    /\ npos = "init_pics"
    /\ nlock = "WRITER"
    /\ saved_if = FALSE
    /\ irq_trace = <<>>
    /\ pool = PoolNew
    /\ pool_hist = PoolHistNew
    /\ kbd_boot = KbdBootNew
    /\ nub = NubNew
    /\ KEYBOARD = KeyboardNew
    /\ console = ConsoleNew
    /\ bump = BumpNew

IrqNormal ==
    \/ init_pics_lock
    \/ init_pics_unlock
    \/ enable
    \/ \E lock \in Locks \ {"PICS"} : without_interrupts_enter(lock)
    \/ critical_lock
    \/ critical_unlock
    \/ without_interrupts_leave
    \/ halt_enter
    \/ halt_leave

IrqHandler ==
    \/ interrupt_entry
    \/ interrupt_handlers_lock
    \/ \E sc \in ScancodeSet : keyboard_interrupt_handler(sc)
    \/ log_level_lock
    \/ log_level_unlock
    \/ print_lock
    \/ print_unlock
    \/ pics_lock
    \/ notify_end_of_interrupt
    \/ interrupt_return

IrqNext == IrqNormal \/ IrqHandler

IrqSpec == IrqInit /\ [][IrqNext]_vars

\* ---------------------------------------------------------------------
\* The pool allocator (kernel/allocator/pool.rs) under an arbitrary caller
\* that allocates blocks of any size and frees blocks it holds.  A pointer
\* is the index of the block's first unit; null is the empty Option.
\* ---------------------------------------------------------------------
Range(ptr, size) == ptr..(ptr + size - 1)

Min(S) == CHOOSE x \in S : \A y \in S : x <= y

\* linked_list_allocator::Heap::allocate_first_fit: the first free range
\* of the size and alignment asked for, or Err.
FirstFit(free, size, align) ==
    LET fits == {a \in 0..(HeapUnits - 1) :
                    a % align = 0 /\ Range(a, size) \subseteq free}
    IN IF fits = {} THEN {} ELSE {Min(fits)}

\* PoolAllocator::list_index: the first bucket whose blocks are big enough.
list_index(size) ==
    LET big == {i \in 1..Len(BLOCK_SIZES) : BLOCK_SIZES[i] >= size}
    IN IF big = {} THEN {} ELSE {Min(big)}

\* PoolAllocator::fallback_alloc
fallback_alloc(p, size, align) ==
    LET got == FirstFit(p.free, size, align) IN
    [ptr |-> got,
     pool |-> IF got = {} THEN p
              ELSE [p EXCEPT !.free = @ \ Range(Min(got), size)]]

\* GlobalAlloc::alloc: the head of the bucket's list if there is one, else
\* a block of the bucket's size from the fallback allocator; a size that
\* fits no bucket goes to the fallback allocator as it is.
PoolAlloc(p, size) ==
    IF list_index(size) = {} THEN fallback_alloc(p, size, 1)
    ELSE LET index == Min(list_index(size)) IN
         IF p.buckets[index] # <<>>
         THEN [ptr |-> {Head(p.buckets[index])},
               pool |-> [p EXCEPT !.buckets[index] = Tail(@)]]
         ELSE fallback_alloc(p, BLOCK_SIZES[index], BLOCK_SIZES[index])

\* Faulty dealloc: the block of a bucket size is forgotten.
PoolDeallocLeak(p, ptr, size) ==
    IF list_index(size) = {} THEN [p EXCEPT !.free = @ \cup Range(ptr, size)]
    ELSE p

\* GlobalAlloc::dealloc: the block becomes the head of its bucket's list;
\* a block that fits no bucket goes back to the fallback allocator.
PoolDealloc(p, ptr, size) ==
    IF list_index(size) = {} THEN [p EXCEPT !.free = @ \cup Range(ptr, size)]
    ELSE LET index == Min(list_index(size)) IN
         [p EXCEPT !.buckets[index] = <<ptr>> \o @]

\* A caller allocates a block of the given size (Box::new).
pool_alloc(size) ==
    /\ pool_hist.allocs < MaxAllocs
    /\ LET got == PoolAlloc(pool, size) IN
       /\ pool' = got.pool
       /\ pool_hist' =
            [live |-> pool_hist.live
                        \cup {[ptr |-> x, size |-> size] : x \in got.ptr},
             last |-> [op |-> "alloc", size |-> size, ptr |-> got.ptr],
             allocs |-> pool_hist.allocs + 1,
             null_returned |-> pool_hist.null_returned \/ got.ptr = {},
             sizes |-> pool_hist.sizes \cup {size}]
    /\ UNCHANGED <<pc, int_enabled>>
    /\ UNCHANGED exec_vars
    /\ UNCHANGED kbd_vars
    /\ UNCHANGED hist_vars
    /\ UNCHANGED irq_vars
    /\ UNCHANGED ext_vars

\* A caller frees a block it holds (drop of the Box).
pool_dealloc(block) ==
    /\ block \in pool_hist.live
    /\ pool' = PoolDealloc(pool, block.ptr, block.size)
    /\ pool_hist' =
         [pool_hist EXCEPT !.live = @ \ {block},
                           !.last = [op |-> "dealloc", size |-> block.size,
                                     ptr |-> {block.ptr}]]
    /\ UNCHANGED <<pc, int_enabled>>
    /\ UNCHANGED exec_vars
    /\ UNCHANGED kbd_vars
    /\ UNCHANGED hist_vars
    /\ UNCHANGED irq_vars
    /\ UNCHANGED ext_vars

Blocks == [ptr : 0..(HeapUnits - 1), size : LayoutSizes]

PoolNext ==
    \/ \E size \in LayoutSizes : pool_alloc(size)
    \/ \E block \in Blocks : pool_dealloc(block)

PoolSpec == Init /\ [][PoolNext]_vars

\* ---------------------------------------------------------------------
\* Keyboard start-up: kernel/keyboard.rs init, and the nub variant where
\* ScancodeStream::new fills the queue cell.  A behaviour is one build:
\* the kernel steps run only while nub is untouched and the other way round.
\* ---------------------------------------------------------------------

\* Bound on the ScancodeStream::new calls of a behaviour.
MaxStreams == 2

\* Faulty init: the handler is installed before the queue is initialized.
InitNextHandlerFirst(pos) ==
    CASE pos = "pics" -> "handler"
      [] pos = "handler" -> "queue"
      [] pos = "queue" -> "done"

\* Order of the steps: lib.rs init has initialized the PICs and enabled
\* interrupts; keyboard::init then runs SCANCODE_QUEUE.try_init_once and
\* after it interrupts::set_interrupt_handler.
InitNext(pos) ==
    CASE pos = "pics" -> "queue"
      [] pos = "queue" -> "handler"
      [] pos = "handler" -> "done"

\* The branch add_scancode takes: SCANCODE_QUEUE.try_get() fails on an empty
\* cell; otherwise queue.push decides.
AddScancodeBranch(cell, q) ==
    IF ~cell THEN "uninitialized"
    ELSE IF IsFull(q, SCANCODE_QUEUE_CAPACITY) THEN "full"
    ELSE "pushed"

\* PICS.lock().initialize(): the mask of the keyboard line is whatever the
\* firmware left.
pics_initialize(mask) ==
    /\ nub = NubNew
    /\ kbd_boot.pos = "pics"
    /\ kbd_boot' = [kbd_boot EXCEPT !.pos = InitNext("pics"), !.masked = mask]
    /\ UNCHANGED <<pc, int_enabled>>
    /\ UNCHANGED exec_vars
    /\ UNCHANGED kbd_vars
    /\ UNCHANGED hist_vars
    /\ UNCHANGED irq_vars
    /\ UNCHANGED heap_vars
    /\ UNCHANGED <<nub, KEYBOARD, console, bump>>

\* SCANCODE_QUEUE.try_init_once(|| ArrayQueue::new(SCANCODE_QUEUE_CAPACITY))
keyboard_init_queue ==
    /\ nub = NubNew
    /\ kbd_boot.pos = "queue"
    /\ kbd_boot' = [kbd_boot EXCEPT !.pos = InitNext("queue"), !.cell = TRUE]
    /\ UNCHANGED <<pc, int_enabled>>
    /\ UNCHANGED exec_vars
    /\ UNCHANGED kbd_vars
    /\ UNCHANGED hist_vars
    /\ UNCHANGED irq_vars
    /\ UNCHANGED heap_vars
    /\ UNCHANGED <<nub, KEYBOARD, console, bump>>

\* interrupts::set_interrupt_handler(InterruptIndex::Keyboard, ..): inside
\* without_interrupts the table entry is replaced and the line unmasked.
keyboard_init_handler ==
    /\ nub = NubNew
    /\ kbd_boot.pos = "handler"
    /\ kbd_boot' = [kbd_boot EXCEPT !.pos = InitNext("handler"),
                                    !.handler = "keyboard_interrupt_handler",
                                    !.masked = FALSE]
    /\ UNCHANGED <<pc, int_enabled>>
    /\ UNCHANGED exec_vars
    /\ UNCHANGED kbd_vars
    /\ UNCHANGED hist_vars
    /\ UNCHANGED irq_vars
    /\ UNCHANGED heap_vars
    /\ UNCHANGED <<nub, KEYBOARD, console, bump>>

\* A keyboard interrupt during or after keyboard::init: the generated
\* handler calls the table entry of the keyboard line.
keyboard_irq(sc) ==
    /\ nub = NubNew
    /\ kbd_boot.pos # "pics"
    /\ int_enabled
    /\ ~kbd_boot.masked
    /\ IF kbd_boot.handler = "default"
       THEN \* default_interrupt_handler() {}
            /\ kbd_boot.ignored < MaxEvents
            /\ kbd_boot' = [kbd_boot EXCEPT !.ignored = @ + 1]
            /\ UNCHANGED <<pc, int_enabled>>
            /\ UNCHANGED exec_vars
            /\ UNCHANGED kbd_vars
            /\ UNCHANGED hist_vars
            /\ UNCHANGED irq_vars
            /\ UNCHANGED heap_vars
            /\ UNCHANGED <<nub, KEYBOARD, console, bump>>
       ELSE IF AddScancodeBranch(kbd_boot.cell, SCANCODE_QUEUE) = "uninitialized"
       THEN \* warning!("scancode queue uninitialized")
            /\ kbd_boot' = [kbd_boot EXCEPT !.warned = TRUE]
            /\ UNCHANGED <<pc, int_enabled>>
            /\ UNCHANGED exec_vars
            /\ UNCHANGED kbd_vars
            /\ UNCHANGED hist_vars
            /\ UNCHANGED irq_vars
            /\ UNCHANGED heap_vars
            /\ UNCHANGED <<nub, KEYBOARD, console, bump>>
       ELSE add_scancode(sc)

\* nub: ScancodeStream::new() -> try_init_once(..).expect("ScancodeStream::new
\* should only be called once")
nub_ScancodeStream_new ==
    /\ kbd_boot = KbdBootNew
    /\ ~nub.panicked
    /\ nub.streams < MaxStreams
    /\ nub' = IF nub.cell
              THEN [nub EXCEPT !.panicked = TRUE]
              ELSE [nub EXCEPT !.cell = TRUE, !.streams = @ + 1]
    /\ UNCHANGED <<pc, int_enabled>>
    /\ UNCHANGED exec_vars
    /\ UNCHANGED kbd_vars
    /\ UNCHANGED hist_vars
    /\ UNCHANGED irq_vars
    /\ UNCHANGED heap_vars
    /\ UNCHANGED <<kbd_boot, KEYBOARD, console, bump>>

\* nub: add_scancode(scancode), called at any time.
nub_add_scancode(sc) ==
    /\ kbd_boot = KbdBootNew
    /\ ~nub.panicked
    /\ IF AddScancodeBranch(nub.cell, SCANCODE_QUEUE) = "uninitialized"
       THEN \* println!("WARNING: scancode queue uninitialized")
            /\ nub.warned < MaxEvents
            /\ nub' = [nub EXCEPT !.warned = @ + 1]
            /\ UNCHANGED <<pc, int_enabled>>
            /\ UNCHANGED exec_vars
            /\ UNCHANGED kbd_vars
            /\ UNCHANGED hist_vars
            /\ UNCHANGED irq_vars
            /\ UNCHANGED heap_vars
            /\ UNCHANGED <<kbd_boot, KEYBOARD, console, bump>>
       ELSE add_scancode(sc)

KbdInitNext ==
    \/ \E mask \in BOOLEAN : pics_initialize(mask)
    \/ keyboard_init_queue
    \/ keyboard_init_handler
    \/ \E sc \in ScancodeSet : keyboard_irq(sc)
    \/ nub_ScancodeStream_new
    \/ \E sc \in ScancodeSet : nub_add_scancode(sc)

KbdInitSpec == Init /\ [][KbdInitNext]_vars

\* ---------------------------------------------------------------------
\* drv/ipd/kbd.rs: the KEYBOARD mutex, taken by get_layout, set_layout and
\* reset_layout in normal context and by keyboard_irq_handler.
\* ---------------------------------------------------------------------

\* api::kbd::Layout
Layouts == {"AZERTY", "Dvorak", "QWERTY"}

LayoutOps == {"get_layout", "set_layout", "reset_layout"}

\* init(lyt): set_layout(lyt), then idt::set_irq_handler(IRQ::Keyboard, ..);
\* no keyboard_irq_handler runs before the second call.
drv_kbd_init(lyt) ==
    /\ KEYBOARD.npos = "boot"
    /\ KEYBOARD' = [KEYBOARD EXCEPT !.layout = {lyt}, !.installed = TRUE,
                                    !.npos = "idle"]
    /\ UNCHANGED <<pc, int_enabled>>
    /\ UNCHANGED exec_vars
    /\ UNCHANGED kbd_vars
    /\ UNCHANGED hist_vars
    /\ UNCHANGED irq_vars
    /\ UNCHANGED heap_vars
    /\ UNCHANGED <<kbd_boot, nub, console, bump>>

\* get_layout / set_layout(lyt) / reset_layout: KEYBOARD.lock().  The callers
\* (api/kbd.rs, main.rs) leave interrupts enabled.  Normal context runs only
\* while no interrupt handler is active, and then the lock is free.
layout_lock(op, lyt) ==
    /\ KEYBOARD.npos = "idle"
    /\ KEYBOARD.ipos = "none"
    /\ KEYBOARD.owner = "free"
    /\ KEYBOARD' = [KEYBOARD EXCEPT
                      !.owner = "normal", !.npos = "locked", !.op = op,
                      !.arg = IF op = "reset_layout" THEN "QWERTY" ELSE lyt]
    /\ UNCHANGED <<pc, int_enabled>>
    /\ UNCHANGED exec_vars
    /\ UNCHANGED kbd_vars
    /\ UNCHANGED hist_vars
    /\ UNCHANGED irq_vars
    /\ UNCHANGED heap_vars
    /\ UNCHANGED <<kbd_boot, nub, console, bump>>

\* The body under the guard and the drop of the guard:
\* keyboard.unwrap() for get_layout, keyboard.replace(..) for the others.
layout_unlock ==
    /\ KEYBOARD.npos = "locked"
    /\ KEYBOARD.ipos = "none"
    /\ KEYBOARD' = [KEYBOARD EXCEPT
                      !.owner = "free", !.npos = "idle",
                      !.got = IF KEYBOARD.op = "get_layout" THEN KEYBOARD.layout ELSE @,
                      !.layout = IF KEYBOARD.op = "get_layout" THEN @ ELSE {KEYBOARD.arg}]
    /\ UNCHANGED <<pc, int_enabled>>
    /\ UNCHANGED exec_vars
    /\ UNCHANGED kbd_vars
    /\ UNCHANGED hist_vars
    /\ UNCHANGED irq_vars
    /\ UNCHANGED heap_vars
    /\ UNCHANGED <<kbd_boot, nub, console, bump>>

\* keyboard_irq_handler: let mut mutex_guarded_kbd = KEYBOARD.lock();
\* spin::Mutex spins while the lock is held, and the holder cannot run
\* before the handler returns.
keyboard_irq_handler_lock ==
    /\ int_enabled
    /\ KEYBOARD.installed
    /\ KEYBOARD.ipos = "none"
    /\ KEYBOARD.handled < MaxEvents
    /\ KEYBOARD' = IF KEYBOARD.owner = "free"
                   THEN [KEYBOARD EXCEPT !.owner = "interrupt", !.ipos = "body"]
                   ELSE [KEYBOARD EXCEPT !.ipos = "spin"]
    /\ UNCHANGED <<pc, int_enabled>>
    /\ UNCHANGED exec_vars
    /\ UNCHANGED kbd_vars
    /\ UNCHANGED hist_vars
    /\ UNCHANGED irq_vars
    /\ UNCHANGED heap_vars
    /\ UNCHANGED <<kbd_boot, nub, console, bump>>

\* The handler decodes the scancode, sends the key and returns; the guard
\* is dropped.
keyboard_irq_handler_return ==
    /\ KEYBOARD.ipos = "body"
    /\ KEYBOARD' = [KEYBOARD EXCEPT !.owner = "free", !.ipos = "none",
                                    !.handled = @ + 1]
    /\ UNCHANGED <<pc, int_enabled>>
    /\ UNCHANGED exec_vars
    /\ UNCHANGED kbd_vars
    /\ UNCHANGED hist_vars
    /\ UNCHANGED irq_vars
    /\ UNCHANGED heap_vars
    /\ UNCHANGED <<kbd_boot, nub, console, bump>>

KbdLayoutNext ==
    \/ \E lyt \in Layouts : drv_kbd_init(lyt)
    \/ \E op \in LayoutOps : \E lyt \in Layouts : layout_lock(op, lyt)
    \/ layout_unlock
    \/ keyboard_irq_handler_lock
    \/ keyboard_irq_handler_return

KbdLayoutSpec == Init /\ [][KbdLayoutNext]_vars

\* ---------------------------------------------------------------------
\* dev/console.rs: key_handle (keyboard interrupt) and read_line
\* ---------------------------------------------------------------------

\* Bound on the keys of a behaviour.
MaxKeys == 3

\* Keys the keyboard handler sends: two printable characters, backspace and
\* the three line terminators.
Keys == {"a", "b", "BS", "CR", "LF", "FF"}

\* Some(ascii::ch::CR) | Some(ascii::ch::LF) | Some(ascii::ch::FF)
Terminators == {"CR", "LF", "FF"}

\* stdin.chars().next_back() is a terminator
EndsLine(buf) == buf # <<>> /\ buf[Len(buf)] \in Terminators

\* Faulty read_line: the closure runs with the interrupt flag as it was.
WithoutInterruptsFlagKept(flag) == flag

\* instructions::interrupts::without_interrupts: the flag inside the closure.
WithoutInterruptsFlag(flag) == FALSE

\* key_handle(key), called by the keyboard interrupt handler (raw mode off,
\* as read_line leaves it): backspace pops the last character, any other
\* key is pushed.
key_handle(key) ==
    /\ int_enabled
    /\ console.keys < MaxKeys
    /\ console' =
         [console EXCEPT
            !.keys = @ + 1,
            !.BUFFER = IF key = "BS"
                       THEN (IF @ = <<>> THEN @ ELSE SubSeq(@, 1, Len(@) - 1))
                       ELSE Append(@, key),
            !.stored = IF key = "BS" THEN @ ELSE Append(@, key),
            !.kept = IF key = "BS"
                     THEN (IF console.BUFFER = <<>> THEN @ ELSE SubSeq(@, 1, Len(@) - 1))
                     ELSE Append(@, key),
            !.rpos = IF @ = "hlt" THEN "check" ELSE @]
    /\ UNCHANGED <<pc, int_enabled>>
    /\ UNCHANGED exec_vars
    /\ UNCHANGED kbd_vars
    /\ UNCHANGED hist_vars
    /\ UNCHANGED irq_vars
    /\ UNCHANGED heap_vars
    /\ UNCHANGED <<kbd_boot, nub, KEYBOARD, bump>>

\* Any other interrupt: it ends the halt of read_line.
console_timer ==
    /\ int_enabled
    /\ console.rpos = "hlt"
    /\ console' = [console EXCEPT !.rpos = "check"]
    /\ UNCHANGED <<pc, int_enabled>>
    /\ UNCHANGED exec_vars
    /\ UNCHANGED kbd_vars
    /\ UNCHANGED hist_vars
    /\ UNCHANGED irq_vars
    /\ UNCHANGED heap_vars
    /\ UNCHANGED <<kbd_boot, nub, KEYBOARD, bump>>

\* read_line: loop { system::halt(); ...
read_line_halt ==
    /\ console.rpos = "idle"
    /\ console' = [console EXCEPT !.rpos = "hlt", !.line = {}]
    /\ UNCHANGED <<pc, int_enabled>>
    /\ UNCHANGED exec_vars
    /\ UNCHANGED kbd_vars
    /\ UNCHANGED hist_vars
    /\ UNCHANGED irq_vars
    /\ UNCHANGED heap_vars
    /\ UNCHANGED <<kbd_boot, nub, KEYBOARD, bump>>

\* without_interrupts(|| { let mut stdin = BUFFER.lock(); match
\* stdin.chars().next_back() { terminator => { let line = stdin.clone();
read_line_check ==
    /\ console.rpos = "check"
    /\ int_enabled' = WithoutInterruptsFlag(int_enabled)
    /\ console' = IF EndsLine(console.BUFFER)
                  THEN [console EXCEPT !.rpos = "clear", !.line = {console.BUFFER}]
                  ELSE [console EXCEPT !.rpos = "leave", !.line = {}]
    /\ UNCHANGED pc
    /\ UNCHANGED exec_vars
    /\ UNCHANGED kbd_vars
    /\ UNCHANGED hist_vars
    /\ UNCHANGED irq_vars
    /\ UNCHANGED heap_vars
    /\ UNCHANGED <<kbd_boot, nub, KEYBOARD, bump>>

\* stdin.clear(); Some(line)
read_line_clear ==
    /\ console.rpos = "clear"
    /\ console' = [console EXCEPT !.rpos = "leave", !.BUFFER = <<>>]
    /\ UNCHANGED <<pc, int_enabled>>
    /\ UNCHANGED exec_vars
    /\ UNCHANGED kbd_vars
    /\ UNCHANGED hist_vars
    /\ UNCHANGED irq_vars
    /\ UNCHANGED heap_vars
    /\ UNCHANGED <<kbd_boot, nub, KEYBOARD, bump>>

\* The closure returns, the flag is restored; if let Some(line) = res
\* { return line; }, otherwise the loop halts again.
read_line_leave ==
    /\ console.rpos = "leave"
    /\ int_enabled' = TRUE
    /\ console' = IF console.line = {}
                  THEN [console EXCEPT !.rpos = "hlt"]
                  ELSE [console EXCEPT
                          !.rpos = "idle",
                          !.returned = @ \o <<CHOOSE l \in console.line : TRUE>>]
    /\ UNCHANGED pc
    /\ UNCHANGED exec_vars
    /\ UNCHANGED kbd_vars
    /\ UNCHANGED hist_vars
    /\ UNCHANGED irq_vars
    /\ UNCHANGED heap_vars
    /\ UNCHANGED <<kbd_boot, nub, KEYBOARD, bump>>

ConsoleNext ==
    \/ \E key \in Keys : key_handle(key)
    \/ console_timer
    \/ read_line_halt
    \/ read_line_check
    \/ read_line_clear
    \/ read_line_leave

ConsoleSpec == Init /\ [][ConsoleNext]_vars

\* ---------------------------------------------------------------------
\* kernel/allocator/bump.rs: the bump allocator
\* ---------------------------------------------------------------------

\* usize is modelled UsizeBits wide; a Layout's size is at most isize::MAX.
UsizeBits == 6
UsizeModulus == 2 ^ UsizeBits
IsizeMax == UsizeModulus \div 2 - 1

\* The heap handed to init: it lies in the upper half of the address space,
\* so that alloc_start + size can overflow for a valid Layout.
BUMP_HEAP_START == UsizeModulus \div 2
BUMP_HEAP_SIZE == 4

\* Layouts requested: sizes and power-of-two alignments.
BumpSizes == {1, 3, IsizeMax - 1}
BumpAligns == {1, 2, 4}

\* ptr::null_mut()
NullPtr == 0

\* allocator.rs: (addr + align - 1) & !(align - 1), align a power of two.
align_up(addr, align) ==
    LET x == (addr + align - 1) % UsizeModulus
    IN  x - (x % align)

\* usize::checked_add: None (the empty set) on overflow.
checked_add(a, b) == IF a + b >= UsizeModulus THEN {} ELSE {a + b}

\* Faulty dealloc: next is reset on every dealloc.
DeallocNextAlways(b, count) == b.heap_start

\* dealloc: if bump.allocations == 0 { bump.next = bump.heap_start; }
DeallocNext(b, count) == IF count = 0 THEN b.heap_start ELSE b.next

\* BumpAllocator::init(heap_start, heap_size)
bump_init ==
    /\ bump.last.op = "new"
    /\ bump' = [bump EXCEPT
                  !.heap_start = BUMP_HEAP_START,
                  !.heap_end = BUMP_HEAP_START + BUMP_HEAP_SIZE,
                  !.next = BUMP_HEAP_START,
                  !.last = [op |-> "init", ptr |-> 0, size |-> 0, align |-> 1]]
    /\ UNCHANGED <<pc, int_enabled>>
    /\ UNCHANGED exec_vars
    /\ UNCHANGED kbd_vars
    /\ UNCHANGED hist_vars
    /\ UNCHANGED irq_vars
    /\ UNCHANGED heap_vars
    /\ UNCHANGED <<kbd_boot, nub, KEYBOARD, console>>

\* GlobalAlloc::alloc(layout): the pointer returned is bump.next after the
\* assignment bump.next = alloc_end.
bump_alloc(size, align) ==
    LET alloc_start == align_up(bump.next, align)
        alloc_end == checked_add(alloc_start, size)
        fits == alloc_end # {} /\ \A e \in alloc_end : e <= bump.heap_end
        p == IF fits THEN CHOOSE e \in alloc_end : TRUE ELSE NullPtr
    IN  /\ bump' =
             IF fits
             THEN [bump EXCEPT
                     !.next = p,
                     !.allocations = @ + 1,
                     !.live = @ \cup {[ptr |-> p, size |-> size, align |-> align]},
                     !.last = [op |-> "alloc", ptr |-> p, size |-> size, align |-> align]]
             ELSE [bump EXCEPT
                     !.last = [op |-> "alloc", ptr |-> NullPtr, size |-> size, align |-> align]]
    /\ UNCHANGED <<pc, int_enabled>>
    /\ UNCHANGED exec_vars
    /\ UNCHANGED kbd_vars
    /\ UNCHANGED hist_vars
    /\ UNCHANGED irq_vars
    /\ UNCHANGED heap_vars
    /\ UNCHANGED <<kbd_boot, nub, KEYBOARD, console>>

\* GlobalAlloc::dealloc(ptr, layout) of a live allocation.
bump_dealloc(a) ==
    /\ a \in bump.live
    /\ bump' = [bump EXCEPT
                  !.allocations = @ - 1,
                  !.next = DeallocNext(bump, bump.allocations - 1),
                  !.live = @ \ {a},
                  !.last = [op |-> "dealloc", ptr |-> a.ptr, size |-> a.size, align |-> a.align]]
    /\ UNCHANGED <<pc, int_enabled>>
    /\ UNCHANGED exec_vars
    /\ UNCHANGED kbd_vars
    /\ UNCHANGED hist_vars
    /\ UNCHANGED irq_vars
    /\ UNCHANGED heap_vars
    /\ UNCHANGED <<kbd_boot, nub, KEYBOARD, console>>

BumpNext ==
    \/ bump_init
    \/ \E size \in BumpSizes, align \in BumpAligns : bump_alloc(size, align)
    \/ \E a \in bump.live : bump_dealloc(a)

BumpSpec == Init /\ [][BumpNext]_vars

TypeOK ==
    /\ pc \in {"boot", "drain", "lock", "spin", "pop1", "register", "pop2",
               "take", "ready", "sleep_if_idle", "idle_check", "halted",
               "panic_wake", "panic_spawn", "panic_dup"}
    /\ int_enabled \in BOOLEAN
    /\ NEXT_ID \in 0..MaxTasks
    /\ DOMAIN tasks \subseteq TaskIDs
    /\ \A t \in DOMAIN tasks : tasks[t] \in Futures
    /\ Len(task_queue) <= QUEUE_SIZE
    /\ Len(SCANCODE_QUEUE) <= SCANCODE_QUEUE_CAPACITY
    /\ Cardinality(running) <= 1
    /\ Cardinality(WAKER) <= 1
    /\ Cardinality(READER) <= 1
    /\ stale \in [TaskIDs -> 0..QUEUE_SIZE]
    /\ made \in [TaskIDs -> 0..1]
    /\ poll_hist \in [resumed : BOOLEAN, fast : BOOLEAN, slow : BOOLEAN]
    /\ irq \in {"none", "handlers_lock", "call", "log_level", "log_level_unlock",
                "print", "print_unlock", "pics_lock", "eoi", "return", "spin"}
    /\ lock_owner \in [Locks -> {"free", "normal", "interrupt"}]
    /\ npos \in {"init_pics", "initialize", "idle", "lock", "unlock", "restore",
                 "hlt", "hlt_done"}
    /\ nlock \in Locks
    /\ saved_if \in BOOLEAN
    /\ pool.free \subseteq 0..(HeapUnits - 1)
    /\ pool_hist.live \subseteq Blocks
    /\ Len(irq_trace) <= 2
    /\ kbd_boot \in [pos : {"pics", "queue", "handler", "done"}, cell : BOOLEAN,
                      handler : {"default", "keyboard_interrupt_handler"},
                      masked : BOOLEAN, ignored : 0..MaxEvents, warned : BOOLEAN]
    /\ KEYBOARD \in [owner : {"free", "normal", "interrupt"},
                      layout : SUBSET Layouts, npos : {"boot", "idle", "locked"},
                      op : LayoutOps, arg : Layouts, got : SUBSET Layouts,
                      installed : BOOLEAN, ipos : {"none", "body", "spin"},
                      handled : 0..MaxEvents]
    /\ bump.next \in 0..(UsizeModulus - 1)
    /\ bump.allocations \in 0..(UsizeModulus - 1)
    /\ bump.last.ptr \in 0..(UsizeModulus - 1)
    /\ console.rpos \in {"idle", "hlt", "check", "clear", "leave"}
    /\ console.keys \in 0..MaxKeys
    /\ Len(console.BUFFER) <= MaxKeys
    /\ nub \in [cell : BOOLEAN, streams : 0..MaxStreams, warned : 0..MaxEvents,
                 panicked : BOOLEAN]

\* ---------------------------------------------------------------------
\* Vocabulary of the properties
\* ---------------------------------------------------------------------

\* Returned Pending from its last poll (or woken since) and not being polled.
Suspended(t) == t \in DOMAIN tasks /\ t \in polled /\ t \notin running

\* A live task suspended inside ScancodeStream::poll_next.
SuspendedConsumer == \E t \in READER : Suspended(t)

\* A live echo task owns the stream.
EchoLive == \E t \in READER : t \in DOMAIN tasks /\ tasks[t].forever

\* The normal-context control flow has stopped for good: the kernel has
\* panicked (hlt_loop) or spins on READER.lock().
Stopped == Panicked \/ pc = "spin"

IsPrefix(s1, s2) == Len(s1) <= Len(s2) /\ SubSeq(s2, 1, Len(s1)) = s1

OptionSeq(o) == IF o = {} THEN <<>> ELSE <<CHOOSE x \in o : TRUE>>

\* The live tasks that have at least one entry in the ready queue.
ReadyTasks == {t \in DOMAIN tasks : Count(t, task_queue) > 0}

\* ---------------------------------------------------------------------
\* Properties
\* ---------------------------------------------------------------------

\* C1: under LiveSpec, while a live echo task owns the stream, the k-th
\* event accepted by add_scancode is eventually obtained from poll_next,
\* for every placement of the interrupts, unless the normal-context control
\* flow has stopped taking steps.
C1_NoLostWakeup ==
    \A k \in 1..MaxEvents :
        (EchoLive /\ Len(accepted) >= k) ~> (Len(delivered) >= k \/ Stopped)

\* The echo task suspended with an empty queue, the CPU halted, an interrupt
\* delivered an event and the task obtained it after its resume.
C1_Witness ==
    /\ EchoLive
    /\ pc = "register"
    /\ Len(delivered) >= 1
    /\ delivered = accepted
    /\ wakes = 1
    /\ polled = READER

\* C2: whenever the CPU is halted in sleep_if_idle and a live consumer task
\* is suspended in the event stream, the scancode queue is empty.
C2_NoSleepWithPendingEvent ==
    (pc = "halted" /\ SuspendedConsumer) => SCANCODE_QUEUE = <<>>

\* The consumer has received an event, suspended again, and the CPU halted.
C2_Witness ==
    pc = "halted" /\ SuspendedConsumer /\ Len(delivered) > 0 /\ WAKER # {}

\* C3: the CPU is halted only with an empty ready queue and interrupts
\* enabled; no interrupt handler changes anything between the disable and
\* the emptiness test; an interrupt taken while halted ends the halt.
C3_IdleCheckIndivisible ==
    /\ [](pc = "halted" => (task_queue = <<>> /\ int_enabled))
    /\ [][pc = "idle_check" =>
            (~int_enabled /\ UNCHANGED <<task_queue, SCANCODE_QUEUE, WAKER, accepted, dropped>>)]_vars
    /\ [][(pc = "halted" /\ Interrupt) => pc' = "drain"]_vars

\* The CPU is halted after the idle check, with tasks alive and events
\* already handled.
C3_Witness ==
    /\ pc = "halted"
    /\ task_queue = <<>>
    /\ int_enabled
    /\ polled # {}
    /\ accepted # <<>>

\* C4: the events the consumer obtains from poll_next are a prefix of the
\* events accepted by add_scancode, in the same order.
C4_FifoDelivery == IsPrefix(delivered, accepted)

\* Two different events were delivered.
C4_Witness ==
    Len(delivered) >= 2 /\ delivered[1] # delivered[2] /\ Len(accepted) > Len(delivered)

\* C5: add_scancode on a full scancode queue completes, drops the event and
\* leaves the queue, the Wake Signal and the ready queue as they were; the
\* events still to be popped are exactly the accepted, undelivered events
\* in push order.
C5_OverflowSafety ==
    /\ [][\A sc \in ScancodeSet :
            (IsFull(SCANCODE_QUEUE, SCANCODE_QUEUE_CAPACITY) /\ add_scancode(sc))
            => /\ dropped'
               /\ pc' = AfterInterrupt(pc)
               /\ UNCHANGED <<SCANCODE_QUEUE, WAKER, task_queue, accepted>>]_vars
    /\ [](accepted = delivered \o OptionSeq(scancode) \o SCANCODE_QUEUE)

\* An event was dropped on a full queue and the retained ones were delivered.
C5_Witness ==
    /\ dropped
    /\ Len(accepted) = SCANCODE_QUEUE_CAPACITY
    /\ delivered = accepted

\* C6: under LiveSpec, once an event has been dropped on a full queue, a
\* live echo task still obtains every accepted event, the retained ones and
\* those accepted after the drop, unless the normal-context control flow
\* has stopped taking steps.
C6_LivenessSurvivesOverflow ==
    \A k \in 1..MaxEvents :
        (dropped /\ EchoLive /\ Len(accepted) >= k)
            ~> ((dropped /\ Len(delivered) >= k) \/ Stopped)

\* After a drop the echo task drained the retained events and then received
\* an event pushed afterwards.
C6_Witness ==
    /\ dropped
    /\ EchoLive
    /\ Len(accepted) > SCANCODE_QUEUE_CAPACITY
    /\ delivered = accepted

\* C7: between two registrations the stored handle is invoked at most once:
\* a wake that finds a handle pushes that handle's task identifier once and
\* empties the slot, so no second push follows until the next register.
C7_AtMostOneWakePerRegistration ==
    /\ [](wakes <= 1)
    /\ [][wakes' > wakes =>
            /\ WAKER # {}
            /\ WAKER' = {}
            /\ task_queue' = task_queue \o OptionSeq(WAKER)]_vars

\* Two events arrived after one registration; the handle was invoked once.
C7_Witness ==
    /\ wakes = 1
    /\ Len(SCANCODE_QUEUE) >= 2
    /\ WAKER = {}
    /\ SuspendedConsumer
    /\ \E t \in READER : Count(t, task_queue) = 1

\* C8 (WakerSpec): a handle replaced in WAKER by a later register, with no
\* wake in between, is not invoked by any wake for as long as it is not
\* registered again; a wake invokes the handle registered last and nothing
\* else, and leaves the slot empty.
C8_OnlyLatestRegistration ==
    /\ [][\A h \in superseded : Count(h, task_queue') <= Count(h, task_queue)]_vars
    /\ [][(WAKER # {} /\ wakes' = wakes + 1)
            => (task_queue' = task_queue \o OptionSeq(WAKER) /\ WAKER' = {})]_vars
    /\ [](superseded \cap WAKER = {})

\* Handle 0 was registered, then handle 1 with no wake in between; the wake
\* that followed invoked handle 1 only.
C8_Witness ==
    /\ superseded = {0}
    /\ task_queue = <<1>>
    /\ wakes = 1
    /\ WAKER = {}

\* C9: a task whose poll returned Ready stays out of tasks and waker_cache,
\* is never polled again, and popping a stale ready-queue entry for it
\* changes nothing but the queue and raises no error; no handle of a
\* completed task stays in WAKER.
C9_IdempotentCompletion ==
    /\ [](\A t \in completed :
            /\ t \notin DOMAIN tasks
            /\ t \notin DOMAIN waker_cache
            /\ t \notin running
            /\ t \notin WAKER)
    /\ [][completed \subseteq completed']_vars
    /\ [][(/\ pc = "drain"
           /\ task_queue # <<>>
           /\ Head(task_queue) \in completed
           /\ task_queue' = Tail(task_queue))
          => (pc' = "drain" /\ UNCHANGED <<tasks, waker_cache, running, polled, WAKER>>)]_vars

\* A stale entry of a completed task was popped and skipped.
C9_Witness ==
    /\ completed # {}
    /\ pc = "drain"
    /\ task_queue # <<>>
    /\ Head(task_queue) \in completed

\* C10 as stated: an entry exists iff the task is currently suspended.
C10_Original ==
    \A t \in TaskIDs : t \in DOMAIN waker_cache <=> Suspended(t)

\* C10 amended: an entry exists iff the task is live and its first poll has
\* started; so every suspended task has one and a completed task has none.
C10_CacheInvariant ==
    /\ \A t \in TaskIDs :
         t \in DOMAIN waker_cache <=> (t \in DOMAIN tasks /\ t \in polled)
    /\ \A t \in TaskIDs : Suspended(t) => t \in DOMAIN waker_cache
    /\ \A t \in DOMAIN waker_cache : waker_cache[t] = t

\* A task is suspended with its handle cached while another has completed.
C10_Witness ==
    /\ \E t \in DOMAIN waker_cache : Suspended(t)
    /\ completed # {}

\* C11 as stated: wake_task reaches the fatal "task queue is full" state
\* only when the number of distinct ready tasks has reached the ready-queue
\* capacity, and never while fewer tasks than the capacity are alive.
C11_Original ==
    /\ pc = "panic_wake" => Cardinality(ReadyTasks) >= QUEUE_SIZE
    /\ Cardinality(DOMAIN tasks) < QUEUE_SIZE => pc # "panic_wake"

\* C12: a spawn that finds the ready queue full ends in the fatal error
\* state; a spawn that returns has appended the new identifier to the ready
\* queue; so while kernel_main is still spawning, the ready queue lists
\* every spawned task, and after QUEUE_SIZE successful spawns the next one
\* is fatal.
C12_SpawnFatalOnFullQueue ==
    /\ [][(pc = "boot" /\ NEXT_ID' # NEXT_ID) =>
            IF IsFull(task_queue, QUEUE_SIZE)
            THEN pc' = "panic_spawn"
            ELSE pc' = "boot" /\ task_queue' = Append(task_queue, NEXT_ID)]_vars
    /\ [](pc = "boot" =>
            /\ Len(task_queue) = NEXT_ID
            /\ \A t \in DOMAIN tasks : Count(t, task_queue) = 1)
    /\ [](pc = "boot" => NEXT_ID <= QUEUE_SIZE)

\* The ready queue was filled by QUEUE_SIZE spawns and one more spawn was
\* fatal.
C12_Witness ==
    /\ pc = "panic_spawn"
    /\ NEXT_ID = QUEUE_SIZE + 1
    /\ Len(task_queue) = QUEUE_SIZE

\* C13: every identifier handed out is below the counter, the counter never
\* decreases, a spawned task gets the counter's value and moves the counter
\* past it, so identifiers are distinct, increase in creation order and are
\* never handed out twice; the duplicate-identifier fatal error is not
\* reached.
C13_UniqueIncreasingIds ==
    /\ [](\A t \in (DOMAIN tasks) \cup completed \cup polled : t < NEXT_ID)
    /\ [](\A i \in 1..Len(task_queue) : task_queue[i] < NEXT_ID)
    /\ [][NEXT_ID' >= NEXT_ID]_vars
    /\ [][\A t \in (DOMAIN tasks') \ (DOMAIN tasks) :
            t = NEXT_ID /\ NEXT_ID' > t]_vars
    /\ [](pc # "panic_dup")

\* Two tasks were created and spawned; one has completed, the other lives.
C13_Witness ==
    /\ NEXT_ID >= 2
    /\ completed # {}
    /\ tasks # <<>>
    /\ pc = "drain"

\* C14: when run_ready_tasks pops an identifier that is not in tasks, then
\* tasks and waker_cache stay as they were, no task is polled, no fatal
\* error is raised, and the loop goes on with the rest of the ready queue.
C14_AbsentTaskIgnored ==
    [][(/\ pc = "drain"
        /\ task_queue # <<>>
        /\ Head(task_queue) \notin DOMAIN tasks
        /\ task_queue' = Tail(task_queue))
       => (/\ pc' = "drain"
           /\ UNCHANGED <<tasks, waker_cache, running, polled>>)]_vars

\* The head of the ready queue names a task that is gone and another
\* identifier waits behind it.
C14_Witness ==
    /\ pc = "drain"
    /\ Len(task_queue) >= 2
    /\ Head(task_queue) \notin DOMAIN tasks
    /\ task_queue[2] \in DOMAIN tasks

\* C15 amended: after boot, ready-queue entries are added only by an
\* add_scancode that accepts an event and invokes the handle stored in
\* WAKER, and the entry added is that handle's task; no step of the executor
\* or of a task adds an entry; the poll of a suspended task starts only by
\* popping that task's identifier from the head of the ready queue.
C15_ResumptionOnlyThroughWake ==
    /\ [][\A t \in TaskIDs :
            (pc # "boot" /\ Count(t, task_queue') > Count(t, task_queue))
            => /\ Len(accepted') = Len(accepted) + 1
               /\ WAKER = {t}
               /\ t \in DOMAIN waker_cache /\ waker_cache[t] = t
               /\ task_queue' = Append(task_queue, t)]_vars
    /\ [][\A t \in TaskIDs :
            (Suspended(t) /\ t \in running')
            => /\ pc = "drain"
               /\ task_queue # <<>>
               /\ Head(task_queue) = t
               /\ task_queue' = Tail(task_queue)]_vars

\* C15 as stated: in addition, the entry popped to poll a suspended task
\* was pushed after that task's latest poll started.
C15_Original ==
    /\ C15_ResumptionOnlyThroughWake
    /\ [][\A t \in TaskIDs : (Suspended(t) /\ t \in running') => stale[t] = 0]_vars

\* The echo task was woken twice within one poll, suspended, and has been
\* resumed by the first of the two entries; the second one, pushed before
\* this poll started, is still in the ready queue.
C15_Witness ==
    /\ \E t \in running : t \in READER /\ stale[t] >= 1 /\ Count(t, task_queue) >= 1
    /\ pc = "pop1"
    /\ Len(delivered) >= 2

\* C16: the handle built for task T carries T's identifier, and each
\* invocation of the handle built for T appends exactly one entry, equal to
\* T's identifier, to the ready queue and changes nothing else in it; the
\* only other outcome is the fatal error of wake_task on a full ready queue,
\* which pushes nothing.
C16_HandleReadmitsOwnTask ==
    /\ [](\A t \in DOMAIN waker_cache : waker_cache[t] = t)
    /\ [](\A h \in WAKER : \E t \in READER : waker_cache[t] = h)
    /\ [][\A t \in DOMAIN waker_cache :
            (WAKER = {waker_cache[t]} /\ Len(accepted') = Len(accepted) + 1)
            => IF IsFull(task_queue, QUEUE_SIZE)
               THEN pc' = "panic_wake" /\ task_queue' = task_queue
               ELSE task_queue' = Append(task_queue, t) /\ ~Panicked']_vars

\* The handle of a task other than the first one was invoked while that
\* task was suspended: its identifier, and only it, is in the ready queue.
C16_Witness ==
    /\ \E t \in READER : t >= 1 /\ Suspended(t) /\ task_queue = <<t>>
    /\ wakes = 1
    /\ WAKER = {}
    /\ completed # {}

\* C17: at most one task is being polled; while a task is being polled the
\* only change of the polled task is its return (no other task starts); a
\* poll starts only from the run loop with no task being polled; an
\* interrupt taken during a poll leaves the polled task and the position of
\* its code as they were, unless the handler ends in the fatal error.
C17_CooperativeScheduling ==
    /\ [](Cardinality(running) <= 1)
    /\ [](pc \in {"lock", "spin", "pop1", "register", "pop2", "take", "ready"}
            => running # {})
    /\ [](running # {}
            => pc \in {"lock", "spin", "pop1", "register", "pop2", "take", "ready",
                       "panic_wake"})
    /\ [][running # {} => (running' = running \/ running' = {})]_vars
    /\ [][(running' # {} /\ running' # running) => (pc = "drain" /\ running = {})]_vars
    /\ [][(running # {} /\ Interrupt)
            => (/\ running' = running
                /\ UNCHANGED <<tasks, waker_cache, READER, scancode, polled>>
                /\ (pc' = pc \/ pc' = "panic_wake"))]_vars

\* An interrupt was handled while the first task was being polled; the
\* poll is at the position it was interrupted at and a second task still
\* waits in the ready queue.
C17_Witness ==
    /\ pc = "pop2"
    /\ wakes = 1
    /\ SCANCODE_QUEUE # <<>>
    /\ \E t \in running : \E u \in DOMAIN tasks :
         u # t /\ u \notin polled /\ Count(u, task_queue) = 1

C21_RunNeverReturns ==
    /\ [][pc # "boot" =>
            pc' \in {"drain", "lock", "spin", "pop1", "register", "pop2", "take",
                     "ready", "sleep_if_idle", "idle_check", "halted",
                     "panic_wake"}]_vars
    /\ [][(pc = "drain" /\ task_queue = <<>> /\ pc' # pc) => pc' = "sleep_if_idle"]_vars
    /\ [][pc = "idle_check" =>
            pc' = IF task_queue = <<>> THEN "halted" ELSE "drain"]_vars
    /\ [][(pc = "halted" /\ pc' # pc) => pc' = "drain"]_vars
    /\ (pc # "boot") ~> ((pc = "halted" /\ task_queue = <<>>) \/ Stopped)

\* Every spawned task has completed, an interrupt has ended a halt since,
\* and the CPU is halted again.
C21_Witness ==
    /\ pc = "halted"
    /\ tasks = <<>>
    /\ completed # {}
    /\ dropped

\* C22 (IrqSpec): when pit::halt returns, the interrupt flag has the value
\* it had when halt was called, whether that was set or clear.
C22_HaltRestoresInterruptState ==
    /\ [][(npos = "hlt_done" /\ npos' = "idle") => int_enabled' = saved_if]_vars
    /\ [][(npos = "idle" /\ npos' = "hlt") => (saved_if' = int_enabled /\ int_enabled')]_vars
    /\ [](npos = "hlt" => int_enabled \/ irq # "none")

\* halt was called with interrupts disabled, an interrupt ended the hlt and
\* halt has returned with interrupts disabled again.
C22_Witness ==
    /\ npos = "idle"
    /\ irq = "none"
    /\ ~int_enabled
    /\ ~saved_if
    /\ irq_trace = <<"add_scancode", "notify_end_of_interrupt">>

\* The units a block of the given size occupies in its bucket or the heap.
BlockUnits(size) ==
    IF list_index(size) = {} THEN size ELSE BLOCK_SIZES[Min(list_index(size))]

\* C23 (PoolSpec): a freed block of a bucket size is the head of its
\* bucket; an alloc that finds its bucket non-empty returns the bucket's
\* head, is not null and takes nothing from the fallback heap; so an alloc
\* that follows a dealloc of the same size class returns the freed block,
\* and alloc-then-free cycles of one class never run out of memory.  Live
\* blocks never overlap each other.
C23_FreedBlocksReused ==
    /\ [](\A i \in list_index(pool_hist.last.size) :
            pool_hist.last.op = "dealloc"
            => (pool.buckets[i] # <<>> /\ {Head(pool.buckets[i])} = pool_hist.last.ptr))
    /\ [][\A size \in LayoutSizes : \A i \in list_index(size) :
            (pool_alloc(size) /\ pool.buckets[i] # <<>>)
            => /\ pool_hist'.last.ptr = {Head(pool.buckets[i])}
               /\ pool'.free = pool.free
               /\ pool'.buckets[i] = Tail(pool.buckets[i])
               /\ pool_hist'.null_returned = pool_hist.null_returned]_vars
    /\ [][\A size \in LayoutSizes : \A i \in list_index(size) :
            (pool_hist.last.op = "dealloc" /\ list_index(pool_hist.last.size) = {i}
             /\ pool_alloc(size))
            => pool_hist'.last.ptr = pool_hist.last.ptr]_vars
    /\ [](\A a, b \in pool_hist.live :
            a # b => Range(a.ptr, BlockUnits(a.size))
                       \cap Range(b.ptr, BlockUnits(b.size)) = {})

\* MaxAllocs allocations of the largest bucket size were served from a heap
\* that holds two such blocks, one block staying alive throughout: no alloc
\* returned null.
C23_Witness ==
    /\ pool_hist.allocs = MaxAllocs
    /\ MaxAllocs > HeapUnits \div 2
    /\ pool_hist.sizes = {2}
    /\ ~pool_hist.null_returned
    /\ Cardinality(pool_hist.live) = 2
    /\ \E b \in pool_hist.live : b.ptr = 0


\* The task t has a live wake path: the Wake Signal holds its handle, or the
\* handle was invoked since the registration and t is in the ready queue.
WakePath(t) ==
    \/ (t \in DOMAIN waker_cache /\ WAKER = {waker_cache[t]})
    \/ (wakes >= 1 /\ Count(t, task_queue) > 0)

\* C24: when poll_next returns Pending the calling task has a live wake
\* path, and a task suspended in the stream keeps one for as long as the
\* kernel has not stopped in wake_task's fatal push (C11); Pending
\* is returned only from the second pop, which found the queue empty, and
\* the second pop is reached only through the registration, which is reached
\* only from a first pop that found the queue empty.
C24_PendingImpliesWakePath ==
    /\ [](pc = "pop2" => \A t \in running : WakePath(t))
    /\ [](\A t \in READER : Suspended(t) => (WakePath(t) \/ pc = "panic_wake"))
    /\ [][(running # {} /\ running' = {} /\ pc # "ready")
            => /\ pc = "pop2"
               /\ SCANCODE_QUEUE = <<>>
               /\ UNCHANGED <<SCANCODE_QUEUE, WAKER, task_queue, delivered>>
               /\ \A t \in running : WakePath(t)']_vars
    /\ [][(pc' = "pop2" /\ pc # "pop2")
            => (pc = "register" /\ \A t \in running : WAKER' = {waker_cache[t]})]_vars
    /\ [][(pc' = "register" /\ pc # "register")
            => (pc = "pop1" /\ SCANCODE_QUEUE = <<>> /\ UNCHANGED SCANCODE_QUEUE)]_vars

\* Both outcomes of a Pending return have happened: the task is suspended
\* with its handle stored, after an earlier suspension that an interrupt
\* ended by invoking the handle.
C24_Witness ==
    /\ pc = "drain"
    /\ running = {}
    /\ \E t \in READER : Suspended(t) /\ WAKER = {waker_cache[t]}
    /\ Len(delivered) >= 1
    /\ SCANCODE_QUEUE = <<>>


\* A step of the normal-context control flow: no interrupt handler ran.
NoInterruptStep == UNCHANGED <<accepted, dropped>>

\* C25: a poll_next that finds the scancode queue non-empty at its first
\* check pops the head, returns it to the caller as Ready, and leaves the
\* Wake Signal, the count of wakes and the ready queue as they were.
C25_FastPath ==
    [][(pc = "pop1" /\ SCANCODE_QUEUE # <<>> /\ NoInterruptStep)
        => /\ SCANCODE_QUEUE' = Tail(SCANCODE_QUEUE)
           /\ delivered' = Append(delivered, Head(SCANCODE_QUEUE))
           /\ running' = running
           /\ pc' \in {"pop1", "ready"}
           /\ UNCHANGED <<WAKER, wakes, task_queue, waker_cache, scancode>>]_vars

\* A resumed poll obtained an event at the first check while an entry of the
\* task was in the ready queue.
C25_Witness ==
    /\ pc = "pop1"
    /\ poll_hist.resumed
    /\ poll_hist.fast
    /\ ~poll_hist.slow
    /\ task_queue # <<>>
    /\ Len(delivered) >= 1


\* C26: when the pop that follows the registration finds an event,
\* poll_next takes the event, empties the Wake Signal and returns the event
\* as Ready; the handle is not invoked by that take, the slot stays empty
\* until the next registration, and an event accepted while the slot is empty
\* pushes nothing to the ready queue: the cancelled registration yields a
\* ready-queue entry only if its handle was invoked before the take.
C26_SecondCheckCancels ==
    /\ [][(pc = "pop2" /\ SCANCODE_QUEUE # <<>> /\ NoInterruptStep)
            => /\ pc' = "take"
               /\ scancode' = {Head(SCANCODE_QUEUE)}
               /\ SCANCODE_QUEUE' = Tail(SCANCODE_QUEUE)
               /\ UNCHANGED <<WAKER, wakes, task_queue, delivered, running>>]_vars
    /\ [][(pc = "take" /\ NoInterruptStep)
            => /\ WAKER' = {}
               /\ \A sc \in scancode : delivered' = Append(delivered, sc)
               /\ running' = running
               /\ pc' \in {"pop1", "ready"}
               /\ UNCHANGED <<wakes, task_queue, SCANCODE_QUEUE>>]_vars
    /\ [][(WAKER = {} /\ WAKER' # {}) => (pc = "register" /\ wakes' = 0)]_vars
    /\ [][(WAKER = {} /\ accepted' # accepted) => UNCHANGED <<task_queue, wakes, WAKER>>]_vars

\* The second check returned an event and cancelled a registration whose
\* handle had not been invoked; a later event was accepted and pushed nothing.
C26_Witness ==
    /\ pc = "pop1"
    /\ poll_hist.slow
    /\ wakes = 0
    /\ WAKER = {}
    /\ task_queue = <<>>
    /\ Len(accepted) > Len(delivered)
    /\ Len(delivered) >= 1


\* C27: popping the id of a suspended task starts a poll of it with its
\* cached handle; while the scancode queue is empty, each step of that poll
\* (first pop, registration, second pop) consumes no event and leaves tasks,
\* waker_cache and the ready queue as they were; the poll returns Pending and
\* the task is suspended again with its handle in the Wake Signal.
C27_DuplicateWakeHarmless ==
    /\ [][(/\ pc = "drain"
           /\ task_queue # <<>>
           /\ Suspended(Head(task_queue))
           /\ NoInterruptStep)
          => /\ running' = {Head(task_queue)}
             /\ pc' = "pop1"
             /\ task_queue' = Tail(task_queue)
             /\ UNCHANGED <<tasks, waker_cache, made, WAKER, SCANCODE_QUEUE, delivered>>]_vars
    /\ [][(/\ pc \in {"pop1", "register", "pop2"}
           /\ SCANCODE_QUEUE = <<>>
           /\ NoInterruptStep)
          => /\ pc' = CASE pc = "pop1" -> "register"
                        [] pc = "register" -> "pop2"
                        [] pc = "pop2" -> "drain"
             /\ UNCHANGED <<tasks, waker_cache, task_queue, SCANCODE_QUEUE, delivered, scancode>>
             /\ pc # "pop1" => \A t \in running : WAKER' = {waker_cache[t]}]_vars
    /\ [][(running # {} /\ running' = {} /\ pc # "ready")
          => /\ UNCHANGED <<tasks, waker_cache, task_queue, SCANCODE_QUEUE, delivered>>
             /\ \A t \in running : Suspended(t)' /\ WAKER' = {waker_cache[t]}]_vars

\* A resumed poll found the scancode queue empty at both checks: it
\* obtained nothing, returned Pending and left the task suspended with its
\* handle stored.
C27_Witness ==
    /\ pc = "drain"
    /\ running = {}
    /\ poll_hist.resumed
    /\ ~poll_hist.fast
    /\ ~poll_hist.slow
    /\ SCANCODE_QUEUE = <<>>
    /\ \E t \in READER : Suspended(t) /\ WAKER = {waker_cache[t]}


\* The tasks spawned so far: TaskID::new hands out 0, 1, 2, ...
Spawned == 0..(NEXT_ID - 1)

\* C28 (LiveSpec): a spawn that returns has inserted the task and appended
\* its id to the ready queue; until its first poll a task has exactly that
\* one entry; first polls happen in spawn order and consume the spawn entry;
\* run_ready_tasks is not left before every spawned task has been polled,
\* and the first drain gets there unless the normal-context control flow
\* stops on the way.
C28_SpawnedTasksPolledInOrder ==
    /\ [][(pc = "boot" /\ pc' = "boot" /\ NEXT_ID' # NEXT_ID)
            => /\ NEXT_ID \in DOMAIN tasks' /\ NEXT_ID \notin DOMAIN tasks
               /\ task_queue' = Append(task_queue, NEXT_ID)]_vars
    /\ [](pc \notin {"panic_spawn", "panic_dup"}
            => \A t \in Spawned : t \notin polled =>
                  (t \in DOMAIN tasks /\ Count(t, task_queue) = 1))
    /\ [][polled' # polled
            => /\ pc = "drain"
               /\ polled' = polled \cup {Head(task_queue)}
               /\ running' = {Head(task_queue)}
               /\ polled = 0..(Head(task_queue) - 1)
               /\ Count(Head(task_queue), task_queue') = 0]_vars
    /\ [](pc \in {"sleep_if_idle", "idle_check", "halted"} => polled = Spawned)
    /\ (pc = "drain") ~> (polled = Spawned \/ Stopped)

\* The first drain has ended with no interrupt taken so far: two tasks were
\* spawned, both were polled, one completed and one is suspended.
C28_Witness ==
    /\ pc = "sleep_if_idle"
    /\ accepted = <<>>
    /\ ~dropped
    /\ NEXT_ID >= 2
    /\ polled = Spawned
    /\ completed # {}
    /\ SuspendedConsumer


\* C29: WakerWrapper::new runs at most once for a task, at the task's first
\* poll, where it fills the cache entry; polling a suspended task constructs
\* nothing and leaves waker_cache as it is; an entry leaves waker_cache only
\* in the step that completes its task; every cached handle is the one
\* constructed for its task.
C29_OneWakeHandlePerTask ==
    /\ [](\A t \in TaskIDs : made[t] <= 1)
    /\ [][\A t \in TaskIDs : made'[t] # made[t]
            => /\ made'[t] = made[t] + 1
               /\ t \notin polled
               /\ t \notin DOMAIN waker_cache
               /\ t \in DOMAIN waker_cache'
               /\ running' = {t}]_vars
    /\ [][\A t \in TaskIDs : (Suspended(t) /\ running' = {t})
            => UNCHANGED <<made, waker_cache>>]_vars
    /\ [][\A t \in DOMAIN waker_cache : t \notin DOMAIN waker_cache'
            => (pc = "ready" /\ running = {t} /\ t \in completed' /\ t \notin DOMAIN tasks')]_vars
    /\ [](\A t \in DOMAIN waker_cache : made[t] = 1 /\ waker_cache[t] = WakerWrapperNew(t))

\* A task is being polled for at least the second time with the one handle
\* made for it, and the entry of a completed task is gone.
C29_Witness ==
    /\ poll_hist.resumed
    /\ \E t \in running : made[t] = 1 /\ t \in DOMAIN waker_cache
    /\ \E t \in completed : made[t] = 1 /\ t \notin DOMAIN waker_cache


\* C30: sleep_if_idle that finds the ready queue non-empty enables
\* interrupts and returns to the run loop without halting and without
\* touching the queue, and the next step of the loop pops the queue's head;
\* sleep_if_idle is left with interrupts enabled on both branches;
\* interrupts are disabled only between its disable and its test, so no
\* task is polled with interrupts disabled.
C30_IdleCheckWithWorkPending ==
    /\ [][(pc = "idle_check" /\ task_queue # <<>>)
            => (pc' = "drain" /\ int_enabled' /\ UNCHANGED <<task_queue, running>>)]_vars
    /\ [][(pc = "idle_check" /\ pc' # "idle_check")
            => (int_enabled' /\ pc' \in {"halted", "drain"})]_vars
    /\ [][(pc = "drain" /\ task_queue # <<>> /\ NoInterruptStep)
            => task_queue' = Tail(task_queue)]_vars
    /\ [](running # {} => int_enabled)
    /\ [](~int_enabled => pc = "idle_check")

\* sleep_if_idle has disabled interrupts and is about to test a ready queue
\* that an interrupt filled after run_ready_tasks had found it empty.
C30_Witness ==
    /\ pc = "idle_check"
    /\ ~int_enabled
    /\ task_queue # <<>>
    /\ wakes = 1
    /\ \E t \in READER : Suspended(t) /\ Head(task_queue) = t


\* C31: in the kernel build the keyboard handler is in the table only once
\* the queue cell is filled, add_scancode never takes its uninitialized
\* branch, and a keyboard interrupt before the handler is installed runs the
\* empty default handler; whenever add_scancode does find the cell empty
\* (nub build, before ScancodeStream::new) it changes neither the queue nor
\* the Wake Signal nor the ready queue and does not panic.
C31_QueueReadyBeforeFirstEvent ==
    /\ [](kbd_boot.handler = "keyboard_interrupt_handler" => kbd_boot.cell)
    /\ [](~kbd_boot.warned)
    /\ []((nub = NubNew /\ ~kbd_boot.cell)
            => (SCANCODE_QUEUE = <<>> /\ accepted = <<>> /\ ~dropped))
    /\ [][(~nub.cell /\ nub'.warned # nub.warned)
            => (UNCHANGED <<SCANCODE_QUEUE, WAKER, task_queue, accepted, wakes, pc>>
                /\ ~nub'.panicked /\ ~Panicked')]_vars

\* keyboard::init has finished, an interrupt taken before the handler was
\* installed ran the default handler, and an event taken afterwards is in
\* the queue.
C31_Witness ==
    /\ kbd_boot.pos = "done"
    /\ kbd_boot.ignored >= 1
    /\ ~kbd_boot.warned
    /\ Len(accepted) >= 1
    /\ SCANCODE_QUEUE # <<>>


\* C32 as stated (LiveSpec): at most one task holds the stream at a time,
\* and every poll of a task returns control to the run loop (or the kernel
\* panics), whatever was spawned, two echo tasks included.
C32_Original ==
    /\ [](Cardinality(READER) <= 1)
    /\ \A t \in TaskIDs : (running = {t}) ~> (running = {} \/ Panicked)


\* C33 as stated: keyboard_irq_handler never waits for the KEYBOARD lock,
\* whatever get_layout, set_layout or reset_layout it interrupts.
C33_Original == KEYBOARD.ipos # "spin"


\* The characters of the lines returned so far, in order.
RECURSIVE Flatten(_)
Flatten(lines) ==
    IF lines = <<>> THEN <<>> ELSE Head(lines) \o Flatten(Tail(lines))

\* The line read_line holds between its clone and its return.
LineInHand == IF console.rpos = "leave" THEN OptionSeq(console.line) ELSE <<>>

BlockBytes(a) == a.ptr .. (a.ptr + a.size - 1)

\* C35 as stated: every non-null pointer p the bump allocator returned for
\* size s lies in the heap (heap_start <= p, p + s <= heap_end), is aligned
\* as requested, and [p, p + s) overlaps no other live allocation.
C35_Original ==
    \A a \in bump.live :
        /\ bump.heap_start <= a.ptr
        /\ a.ptr % a.align = 0
        /\ a.ptr + a.size <= bump.heap_end
        /\ \A b \in bump.live \ {a} : BlockBytes(a) \cap BlockBytes(b) = {}


\* alloc's aligned request from the current state, as alloc computes it.
BumpRequestEnd(size, align) == checked_add(align_up(bump.next, align), size)

\* C36: after every alloc and dealloc the allocation counter equals the
\* number of live allocations; next returns to heap_start exactly when a
\* dealloc brings the counter to zero and otherwise never decreases; alloc
\* returns null and leaves the allocator unchanged when the aligned request
\* would overflow or end past heap_end, and only then.
C36_CounterAndReset ==
    /\ [](bump.allocations = Cardinality(bump.live))
    /\ [][(bump'.last.op = "dealloc" /\ bump' # bump)
            => /\ bump'.allocations = bump.allocations - 1
               /\ IF bump'.allocations = 0
                  THEN bump'.next = bump.heap_start
                  ELSE bump'.next = bump.next]_vars
    /\ [][bump'.next < bump.next
            => (bump'.last.op = "dealloc" /\ bump'.allocations = 0
                /\ bump'.next = bump.heap_start)]_vars
    /\ [][\A size \in BumpSizes, align \in BumpAligns :
            (bump'.last = [op |-> "alloc", ptr |-> bump'.last.ptr,
                           size |-> size, align |-> align]
             /\ bump'.last # bump.last)
            => IF \/ BumpRequestEnd(size, align) = {}
                  \/ \E e \in BumpRequestEnd(size, align) : e > bump.heap_end
               THEN /\ bump'.last.ptr = NullPtr
                    /\ [bump' EXCEPT !.last = bump.last] = bump
               ELSE /\ bump'.last.ptr # NullPtr
                    /\ bump'.allocations = bump.allocations + 1
                    /\ bump'.next >= bump.next]_vars

\* Two allocations were made and one was freed, so next stayed where it
\* was; then a request that does not fit was answered with null.
C36_Witness ==
    /\ bump.allocations = 1
    /\ bump.next > bump.heap_start + 1
    /\ bump.live # {}
    /\ \A a \in bump.live : a.ptr < bump.next
    /\ bump.last.op = "alloc"
    /\ bump.last.ptr = NullPtr

====
